---- MODULE Spec2Model ----
(***************************************************************************)
(* Model of the curve-tracking sensors of the sun2 integration.            *)
(*                                                                         *)
(* Units.  Instants are whole seconds counted from 00:00:00 local time of  *)
(* civil date 0 (the astral package ignores microseconds, and every       *)
(* instant the sensors compute is passed through nearest_second).          *)
(* Elevations are whole thousandths of a degree, so that the constants of  *)
(* const.py are exact: 0.5 -> 500, 0.02 -> 20, 0.005 -> 5, -0.833 -> -833. *)
(*                                                                         *)
(* The astral package is an external oracle.  It is modelled by a small   *)
(* family of deterministic profiles (Profiles): one solar midnight and one *)
(* solar noon per cycle, an S-shaped monotonic curve between consecutive   *)
(* extrema that changes by less than 3 thousandths of a degree per second  *)
(* (the sun changes elevation by at most 0.0042 degrees per second), and   *)
(* extrema that may drift from one day to the next.                        *)
(***************************************************************************)
EXTENDS Integers, Sequences, FiniteSets, TLC

\* ------------------------------------------------------------- constants
\* const.py
ELEV_STEP == 500
MAX_ERR_ELEV == 20
MAX_ERR_PHASE == 5
SUNSET_ELEV == -833
HALF_DAY == 43200
ONE_DAY == 86400
ONE_SEC == 1
\* sensor.py: _DELTA = timedelta(minutes=5)
DELTA == 300
\* Python's None, for an optional instant (instants are never negative).
None == -1

\* ------------------------------------------------------------- arithmetic
Abs(x) == IF x < 0 THEN -x ELSE x

Min2(a, b) == IF a < b THEN a ELSE b

Max2(a, b) == IF a > b THEN a ELSE b

\* floor(n / d) for any sign of d (d # 0).
FloorDiv(n, d) == IF d > 0 THEN n \div d ELSE (-n) \div (-d)

\* floor(n / d + 1/2): the quotient rounded to the nearest whole, halves up.
RoundHalfUp(n, d) ==
    LET n2 == IF d > 0 THEN n ELSE -n
        d2 == Abs(d)
    IN  (n2 \div d2) + (IF 2 * (n2 % d2) >= d2 THEN 1 ELSE 0)

\* datetime.date() of an instant.
DateOf(t) == t \div ONE_DAY

\* ------------------------------------------------------------- the oracle
\* A profile of the astral oracle at one location:
\*   midOff   solar_midnight(d) = d * ONE_DAY + midOff
\*   gap      solar_noon(d) = solar_midnight(d) + gap
\*   lo0, loStep   elevation at solar_midnight(d) = lo0 + d * loStep
\*   hi0, hiStep   elevation at solar_noon(d)     = hi0 + d * hiStep
\*   taeErr   error (seconds) of time_at_elevation; taeNone: it returns None
Profiles ==
    << [midOff |-> -240, gap |-> 43200, lo0 |-> -25000, loStep |-> 0,
        hi0 |-> 15000, hiStep |-> 0, taeErr |-> 0, taeNone |-> FALSE],
       [midOff |-> 300, gap |-> 43000, lo0 |-> -20000, loStep |-> 0,
        hi0 |-> 8000, hiStep |-> 100, taeErr |-> 700, taeNone |-> FALSE],
       [midOff |-> 88080, gap |-> 43200, lo0 |-> -14000, loStep |-> 0,
        hi0 |-> 3000, hiStep |-> 0, taeErr |-> 0, taeNone |-> TRUE],
       [midOff |-> 120, gap |-> 43200, lo0 |-> -18450, loStep |-> 0,
        hi0 |-> 15000, hiStep |-> 0, taeErr |-> -3545, taeNone |-> FALSE],
       [midOff |-> -100, gap |-> 43400, lo0 |-> -30000, loStep |-> 0,
        hi0 |-> 20000, hiStep |-> 0, taeErr |-> 0, taeNone |-> FALSE],
       [midOff |-> -100, gap |-> 43000, lo0 |-> -30000, loStep |-> 0,
        hi0 |-> 20000, hiStep |-> 0, taeErr |-> 0, taeNone |-> FALSE],
       [midOff |-> -100, gap |-> 43400, lo0 |-> -18003, loStep |-> 0,
        hi0 |-> 20000, hiStep |-> 0, taeErr |-> 0, taeNone |-> FALSE],
       [midOff |-> -100, gap |-> 43210, lo0 |-> -18003, loStep |-> 0,
        hi0 |-> 20000, hiStep |-> 0, taeErr |-> 0, taeNone |-> TRUE] >>

\* The profiles of the specifications that vary the astral data, and the
\* profiles of a day of phases: those, and the one whose time_at_elevation is
\* 59 minutes early.
ProfileIds == 1 .. 3
DayProfiles == 1 .. 4

solar_midnight(p, d) == d * ONE_DAY + Profiles[p].midOff

solar_noon(p, d) == solar_midnight(p, d) + Profiles[p].gap

LoElev(p, d) == Profiles[p].lo0 + d * Profiles[p].loStep

HiElev(p, d) == Profiles[p].hi0 + d * Profiles[p].hiStep

\* The rise of an S-shaped curve of height A after u of P seconds: two
\* parabola arcs joined at P/2, flat at both ends; weakly increasing in u.
SCurve(A, u, P) ==
    IF 2 * u <= P
    THEN (A * ((2 * u * u) \div P)) \div P
    ELSE A - (A * ((2 * (P - u) * (P - u)) \div P)) \div P

\* Elevation on a segment that goes from e0 to e1 in P seconds, u seconds in.
SegElev(e0, e1, u, P) ==
    IF e1 >= e0 THEN e0 + SCurve(e1 - e0, u, P)
    ELSE e0 - SCurve(e0 - e1, u, P)

\* The cycle (solar midnight to solar midnight) that contains instant t.
CycleOf(p, t) == (t - Profiles[p].midOff) \div ONE_DAY

\* The elevation at instant t of cycle k: rising from the solar midnight to
\* the solar noon of the cycle, falling from there to the next solar midnight.
CycleElev(p, k, t) ==
    IF t - solar_midnight(p, k) < Profiles[p].gap
    THEN SegElev(LoElev(p, k), HiElev(p, k), t - solar_midnight(p, k),
                 Profiles[p].gap)
    ELSE SegElev(HiElev(p, k), LoElev(p, k + 1), t - solar_noon(p, k),
                 ONE_DAY - Profiles[p].gap)

\* solar_elevation(t)
solar_elevation(p, t) == CycleElev(p, CycleOf(p, t), t)

\* solar_azimuth(t): from north at solar midnight, once around per day.
solar_azimuth(p, t) == ((t - solar_midnight(p, CycleOf(p, t))) * 25) \div 6

\* The first instant of [a, b] at which the curve has reached elevation e
\* (rising: elevation >= e; falling: elevation <= e); b when it has not.
RECURSIVE FirstReached(_, _, _, _, _)
FirstReached(p, a, b, e, rising) ==
    IF a >= b THEN b
    ELSE IF (rising /\ solar_elevation(p, (a + b) \div 2) >= e)
            \/ (~rising /\ solar_elevation(p, (a + b) \div 2) <= e)
    THEN FirstReached(p, a, (a + b) \div 2, e, rising)
    ELSE FirstReached(p, (a + b) \div 2 + 1, b, e, rising)

\* x <= e <= y or y <= e <= x
Between(e, x, y) == Min2(x, y) <= e /\ e <= Max2(x, y)

\* astral's estimate of the instant between the extrema a and b at which the
\* sun is at elevation e.
TimeBetween(p, a, b, e, rising) ==
    IF Profiles[p].taeNone
       \/ ~Between(e, solar_elevation(p, a), solar_elevation(p, b))
    THEN None
    ELSE FirstReached(p, a, b, e, rising) + Profiles[p].taeErr

\* time_at_elevation(elevation, date, direction): astral's estimate of the
\* instant of date d at which the sun is at elevation e, rising or setting.
\* It is "not very accurate and can sometimes return None" (sensor.py), and
\* is None when the sun does not reach e on that part of the curve.
time_at_elevation(p, d, e, rising) ==
    IF rising
    THEN TimeBetween(p, solar_midnight(p, d), solar_noon(p, d), e, rising)
    ELSE TimeBetween(p, solar_noon(p, d), solar_midnight(p, d + 1), e, rising)

\* ------------------------------------------------------------- sensor.py
\* CurveParameters
CurveParameters(tl_dttm, tl_elev, tr_dttm, tr_elev, mid_date, nxt_noon, rising) ==
    [tl_dttm |-> tl_dttm, tl_elev |-> tl_elev, tr_dttm |-> tr_dttm,
     tr_elev |-> tr_elev, mid_date |-> mid_date, nxt_noon |-> nxt_noon,
     rising |-> rising]

\* _get_curve_params: the choice of <<tl_dttm, tr_dttm>>
curve_ends(p, cur_dttm, cur_date) ==
    IF cur_dttm < solar_midnight(p, cur_date)
    THEN <<solar_noon(p, cur_date - 1), solar_midnight(p, cur_date)>>
    ELSE IF cur_dttm < solar_noon(p, cur_date)
    THEN <<solar_midnight(p, cur_date), solar_noon(p, cur_date)>>
    ELSE IF cur_dttm < solar_midnight(p, cur_date + 1)
    THEN <<solar_noon(p, cur_date), solar_midnight(p, cur_date + 1)>>
    ELSE <<solar_midnight(p, cur_date + 1), solar_noon(p, cur_date + 1)>>

\* _get_curve_params: the CurveParameters of the ends chosen
curve_of_ends(tl_dttm, tl_elev, tr_dttm, tr_elev, nxt_noon) ==
    CurveParameters(tl_dttm, tl_elev, tr_dttm, tr_elev,
                    DateOf(tl_dttm + (tr_dttm - tl_dttm) \div 2),
                    nxt_noon, tr_elev > tl_elev)

\* _get_curve_params: the elevations at the ends chosen
curve_at_ends(p, ends, nxt_noon) ==
    curve_of_ends(ends[1], solar_elevation(p, ends[1]),
                  ends[2], solar_elevation(p, ends[2]), nxt_noon)

\* A variant of _get_curve_params whose nxt_noon is the solar noon of
\* cur_date.
get_curve_params_today(p, cur_dttm) ==
    curve_at_ends(p, curve_ends(p, cur_dttm, DateOf(cur_dttm)),
                  solar_noon(p, DateOf(cur_dttm)))

\* Sun2CPSensorEntity._get_curve_params
get_curve_params(p, cur_dttm) ==
    curve_at_ends(p, curve_ends(p, cur_dttm, DateOf(cur_dttm)),
                  solar_noon(p, DateOf(cur_dttm) + 1))

\* A bound on the passes of the loop of _get_dttm_at_elev explored (the loop
\* has no counter of its own).
MaxIter == 1000

\* The result of _get_dttm_at_elev: the value returned (None or an instant),
\* the exit taken, and the number of estimates made.
RootResult(dttm, why, n) == [dttm |-> dttm, why |-> why, n |-> n]

\* The variables of the loop of _get_dttm_at_elev; why is "" while it runs and
\* the exit taken ("ZeroDivisionError", "outside range", "break", "converged")
\* once it has ended, est_dttm the value it then returns.
RootState(t0_dttm, t0_elev, t1_dttm, t1_elev, est, why, est_dttm) ==
    [t0_dttm |-> t0_dttm, t0_elev |-> t0_elev, t1_dttm |-> t1_dttm,
     t1_elev |-> t1_elev, est |-> est, why |-> why, est_dttm |-> est_dttm]

\* A variant of the pass that accepts an estimate within 1.5 * max_err of the
\* target (the distance est_elev starts at) instead of max_err.
dttm_at_elev_step_loose(s, elev, max_err, est_dttm, est_elev) ==
    IF est_dttm \in {s.t0_dttm, s.t1_dttm}
    THEN [s EXCEPT !.why = "break", !.est_dttm = est_dttm]
    ELSE IF 2 * Abs(est_elev - elev) < 3 * max_err
    THEN [s EXCEPT !.why = "converged", !.est_dttm = est_dttm]
    ELSE IF est_dttm > s.t1_dttm
    THEN [s EXCEPT !.t0_dttm = s.t1_dttm, !.t0_elev = s.t1_elev,
                   !.t1_dttm = est_dttm, !.t1_elev = est_elev]
    ELSE IF \/ (s.t0_elev < elev /\ elev < est_elev)
            \/ (s.t0_elev > elev /\ elev > est_elev)
    THEN [s EXCEPT !.t1_dttm = est_dttm, !.t1_elev = est_elev]
    ELSE [s EXCEPT !.t0_dttm = est_dttm, !.t0_elev = est_elev]

\* A variant of the pass that goes on when the estimate repeats an end of the
\* bracket.
dttm_at_elev_step_on(s, elev, max_err, est_dttm, est_elev) ==
    IF Abs(est_elev - elev) < max_err
    THEN [s EXCEPT !.why = "converged", !.est_dttm = est_dttm]
    ELSE IF est_dttm > s.t1_dttm
    THEN [s EXCEPT !.t0_dttm = s.t1_dttm, !.t0_elev = s.t1_elev,
                   !.t1_dttm = est_dttm, !.t1_elev = est_elev]
    ELSE IF \/ (s.t0_elev < elev /\ elev < est_elev)
            \/ (s.t0_elev > elev /\ elev > est_elev)
    THEN [s EXCEPT !.t1_dttm = est_dttm, !.t1_elev = est_elev]
    ELSE [s EXCEPT !.t0_dttm = est_dttm, !.t0_elev = est_elev]

\* One pass of the loop of _get_dttm_at_elev, once est_elev is known
dttm_at_elev_step(s, elev, max_err, est_dttm, est_elev) ==
    IF est_dttm \in {s.t0_dttm, s.t1_dttm}
    THEN [s EXCEPT !.why = "break", !.est_dttm = est_dttm]
    ELSE IF Abs(est_elev - elev) < max_err
    THEN [s EXCEPT !.why = "converged", !.est_dttm = est_dttm]
    ELSE IF est_dttm > s.t1_dttm
    THEN [s EXCEPT !.t0_dttm = s.t1_dttm, !.t0_elev = s.t1_elev,
                   !.t1_dttm = est_dttm, !.t1_elev = est_elev]
    ELSE IF \/ (s.t0_elev < elev /\ elev < est_elev)
            \/ (s.t0_elev > elev /\ elev > est_elev)
    THEN [s EXCEPT !.t1_dttm = est_dttm, !.t1_elev = est_elev]
    ELSE [s EXCEPT !.t0_dttm = est_dttm, !.t0_elev = est_elev]

\* A variant of the pass that answers with the nearer end of the segment, where
\* the code gives up on an estimate outside the segment.
dttm_at_elev_est_clamped(p, cp, s, elev, max_err, est_dttm) ==
    IF est_dttm < cp.tl_dttm \/ est_dttm > cp.tr_dttm
    THEN [s EXCEPT !.why = "converged",
                   !.est_dttm = Max2(cp.tl_dttm, Min2(cp.tr_dttm, est_dttm))]
    ELSE dttm_at_elev_step(s, elev, max_err, est_dttm, solar_elevation(p, est_dttm))

\* One pass of the loop of _get_dttm_at_elev, once est_dttm is known
dttm_at_elev_est(p, cp, s, elev, max_err, est_dttm) ==
    IF est_dttm < cp.tl_dttm \/ est_dttm > cp.tr_dttm
    THEN [s EXCEPT !.why = "outside range", !.est_dttm = None]
    ELSE dttm_at_elev_step(s, elev, max_err, est_dttm, solar_elevation(p, est_dttm))

\* A variant of the pass that answers t0_dttm when the elevations at the ends
\* of the bracket are equal.
dttm_at_elev_try_flat(p, cp, s, elev, max_err) ==
    IF s.t1_elev = s.t0_elev
    THEN [s EXCEPT !.why = "converged", !.est_dttm = s.t0_dttm]
    ELSE dttm_at_elev_est(p, cp, s, elev, max_err,
                          s.t0_dttm + RoundHalfUp((s.t1_dttm - s.t0_dttm) * (elev - s.t0_elev),
                                                  s.t1_elev - s.t0_elev))

\* One pass of the loop of _get_dttm_at_elev, once est is counted
dttm_at_elev_try(p, cp, s, elev, max_err) ==
    IF s.t1_elev = s.t0_elev
    THEN [s EXCEPT !.why = "ZeroDivisionError", !.est_dttm = None]
    ELSE dttm_at_elev_est(p, cp, s, elev, max_err,
                          s.t0_dttm + RoundHalfUp((s.t1_dttm - s.t0_dttm) * (elev - s.t0_elev),
                                                  s.t1_elev - s.t0_elev))

\* One pass of the loop of _get_dttm_at_elev
dttm_at_elev_pass(p, cp, s, elev, max_err) ==
    dttm_at_elev_try(p, cp, [s EXCEPT !.est = @ + 1], elev, max_err)

\* The loop of _get_dttm_at_elev from the variables s, for at most n passes:
\* the first half of them, then the rest.
RECURSIVE dttm_at_elev_loop(_, _, _, _, _, _)
dttm_at_elev_loop(p, cp, s, elev, max_err, n) ==
    IF s.why # "" \/ n = 0 THEN s
    ELSE IF n = 1 THEN dttm_at_elev_pass(p, cp, s, elev, max_err)
    ELSE dttm_at_elev_loop(p, cp,
                           dttm_at_elev_loop(p, cp, s, elev, max_err, n \div 2),
                           elev, max_err, n - n \div 2)

\* What the loop of _get_dttm_at_elev leaves ("fuel": it was still running
\* after MaxIter passes)
root_result(s) ==
    IF s.why = "" THEN RootResult(None, "fuel", s.est)
    ELSE RootResult(s.est_dttm, s.why, s.est)

\* Sun2CPSensorEntity._get_dttm_at_elev, with the exit it took.
get_dttm_at_elev_res(p, cp, t0_dttm, t1_dttm, elev, max_err) ==
    root_result(
        dttm_at_elev_loop(p, cp,
                          RootState(t0_dttm, solar_elevation(p, t0_dttm),
                                    t1_dttm, solar_elevation(p, t1_dttm),
                                    0, "", None),
                          elev, max_err, MaxIter))

\* Sun2CPSensorEntity._get_dttm_at_elev
get_dttm_at_elev(p, cp, t0_dttm, t1_dttm, elev, max_err) ==
    get_dttm_at_elev_res(p, cp, t0_dttm, t1_dttm, elev, max_err).dttm

\* ------------------------------------------------------------- the entity
\* A Sun2CPSensorEntity and what it has armed.  Fields:
\*   kind          "elevation", "azimuth", "sun_phase" or "deconz_daylight"
\*                 (the sensor type)
\*   astral        _astral_data: the oracle profile in use
\*   cp            _cp: <<>> (None) or <<CurveParameters>>
\*   prv_dttm      _prv_dttm (elevation sensor)
\*   native_value  _attr_native_value: <<>> (None) or <<value>>
\*   icon, extra   _attr_icon and _attr_extra_state_attributes (<<>> unset)
\*   unsub_update  _unsub_update: 0 (None) or the id of the timer it cancels
\*   updates       _updates (phase sensors): Update records
\*   timers        the pending timers this entity armed: [id, at, cb]
\*   nextId        the id the next armed timer gets
\*   updReq        updates requested (async_schedule_update_ha_state(True),
\*                 async_update_ha_state(True)) and not yet run
\*   errors        LOGGER.error calls so far
\*   gen, stale    ghost fields: the number of astral-data updates so far;
\*                 whether a transition computed before the latest one has
\*                 been applied to the state
NewEntity(kind, p) ==
    [kind |-> kind, astral |-> p, cp |-> <<>>, prv_dttm |-> None,
     native_value |-> <<>>, icon |-> "", extra |-> <<>>, unsub_update |-> 0,
     updates |-> <<>>, timers |-> {}, nextId |-> 1, updReq |-> 0,
     errors |-> 0, gen |-> 0, stale |-> FALSE]

\* async_track_point_in_utc_time(hass, cb, at): the entity with the timer
\* armed; its id (the handle that cancels it) is e.nextId.
ArmTimer(e, cb, at) ==
    [e EXCEPT !.timers = @ \cup {[id |-> e.nextId, at |-> at, cb |-> cb]},
              !.nextId = @ + 1]

\* Calling the handles in ids: those timers are no longer pending.
CancelTimers(e, ids) ==
    [e EXCEPT !.timers = {t \in @ : t.id \notin ids}]

\* round(cur_elev, 1): to the nearest tenth of a degree, halves to even.
Round1(x) ==
    IF x % 100 < 50 THEN 100 * (x \div 100)
    ELSE IF x % 100 > 50 THEN 100 * (x \div 100 + 1)
    ELSE IF (x \div 100) % 2 = 0 THEN 100 * (x \div 100)
    ELSE 100 * (x \div 100 + 1)

\* Sun2CPSensorEntity._attrs_at_elev
cp_attrs_at_elev(cp, elev) ==
    [icon |-> IF cp.rising
              THEN IF elev < -18000 THEN "mdi:weather-night"
                   ELSE IF elev < SUNSET_ELEV THEN "mdi:weather-sunset-up"
                   ELSE "mdi:weather-sunny"
              ELSE IF elev > SUNSET_ELEV THEN "mdi:weather-sunny"
                   ELSE IF elev > -18000 THEN "mdi:weather-sunset-down"
                   ELSE "mdi:weather-night"]

\* Sun2PhaseSensor._attrs_at_elev
phase_attrs_at_elev(cp, elev) ==
    [icon |-> cp_attrs_at_elev(cp, elev).icon,
     blue_hour |-> IF cp.rising THEN -6000 <= elev /\ elev < -4000
                   ELSE -6000 < elev /\ elev <= -4000,
     golden_hour |-> IF cp.rising THEN -4000 <= elev /\ elev < 6000
                     ELSE -4000 < elev /\ elev <= 6000,
     rising |-> cp.rising]

\* Sun2DeconzDaylightSensor._attrs_at_elev
deconz_attrs_at_elev(cp, elev) ==
    [icon |-> cp_attrs_at_elev(cp, elev).icon,
     daylight |-> IF cp.rising THEN elev >= SUNSET_ELEV ELSE elev > SUNSET_ELEV]

\* self._attrs_at_elev, by sensor type
attrs_at_elev(e, elev) ==
    IF e.kind = "sun_phase" THEN phase_attrs_at_elev(e.cp[1], elev)
    ELSE IF e.kind = "deconz_daylight" THEN deconz_attrs_at_elev(e.cp[1], elev)
    ELSE cp_attrs_at_elev(e.cp[1], elev)

\* Sun2CPSensorEntity._set_attrs
set_attrs(e, attrs, nxt_chg) ==
    [e EXCEPT !.icon = attrs.icon,
              !.extra = << [k \in (DOMAIN attrs \ {"icon"}) \cup {"next_change"} |->
                              IF k = "next_change" THEN nxt_chg ELSE attrs[k]] >>]

\* Sun2Entity._cancel_update
base_cancel_update(e) ==
    IF e.unsub_update # 0
    THEN [CancelTimers(e, {e.unsub_update}) EXCEPT !.unsub_update = 0]
    ELSE e

\* Sun2AzimuthSensor._update: delta, in seconds
azimuth_delta(elevation) ==
    IF elevation >= 10000 THEN 4 * 60
    ELSE IF elevation >= 0 THEN 2 * 60
    ELSE IF elevation >= -6000 THEN 4 * 60
    ELSE IF elevation >= -18000 THEN 8 * 60
    ELSE 20 * 60

\* Sun2AzimuthSensor._update
azimuth_update(e, cur_dttm) ==
    [ArmTimer([e EXCEPT !.native_value = <<solar_azimuth(e.astral, cur_dttm)>>],
              "async_schedule_update",
              cur_dttm + azimuth_delta(solar_elevation(e.astral, cur_dttm)))
        EXCEPT !.unsub_update = e.nextId]

\* floor((rnd_elev + ELEV_STEP) / ELEV_STEP) * ELEV_STEP
step_above(rnd_elev) == ((rnd_elev + ELEV_STEP) \div ELEV_STEP) * ELEV_STEP

\* ceil((rnd_elev - ELEV_STEP) / ELEV_STEP) * ELEV_STEP
step_below(rnd_elev) == -(((ELEV_STEP - rnd_elev) \div ELEV_STEP) * ELEV_STEP)

\* A variant of the target that is not held at the sunrise/sunset elevation.
elev_target_free(rising, rnd_elev) ==
    IF rising THEN step_above(rnd_elev) ELSE step_below(rnd_elev)

\* A variant of the target that is the rounded elevation itself.
elev_target_here(rising, rnd_elev) == rnd_elev

\* The target of the extrapolation in Sun2ElevationSensor._update: the next
\* multiple of ELEV_STEP beyond rnd_elev, held at the sunrise/sunset elevation.
elev_target(rising, rnd_elev) ==
    IF rising
    THEN IF rnd_elev < SUNSET_ELEV
            /\ step_above(rnd_elev) > SUNSET_ELEV + MAX_ERR_ELEV
         THEN SUNSET_ELEV + MAX_ERR_ELEV ELSE step_above(rnd_elev)
    ELSE IF rnd_elev > SUNSET_ELEV
            /\ step_below(rnd_elev) < SUNSET_ELEV - MAX_ERR_ELEV
         THEN SUNSET_ELEV - MAX_ERR_ELEV ELSE step_below(rnd_elev)

\* A variant of the extrapolation whose tolerance is ten times MAX_ERR_ELEV.
elevation_extrapolate_wide(e, cur_dttm) ==
    IF e.prv_dttm # None
    THEN get_dttm_at_elev(e.astral, e.cp[1], e.prv_dttm, cur_dttm,
                          elev_target(e.cp[1].rising, e.native_value[1]),
                          10 * MAX_ERR_ELEV)
    ELSE None

\* Sun2ElevationSensor._update: the extrapolation from (_prv_dttm, cur_dttm)
elevation_extrapolate(e, cur_dttm) ==
    IF e.prv_dttm # None
    THEN get_dttm_at_elev(e.astral, e.cp[1], e.prv_dttm, cur_dttm,
                          elev_target(e.cp[1].rising, e.native_value[1]),
                          MAX_ERR_ELEV)
    ELSE None

\* A variant that polls DELTA from now whenever the extrapolation found
\* nothing.
elevation_nxt_dttm_poll(cp, cur_dttm, nxt_dttm) ==
    IF nxt_dttm # None THEN nxt_dttm ELSE cur_dttm + DELTA

\* Sun2ElevationSensor._update: nxt_dttm, given what the extrapolation found
elevation_nxt_dttm(cp, cur_dttm, nxt_dttm) ==
    IF nxt_dttm # None THEN nxt_dttm
    ELSE IF cp.tr_dttm - DELTA <= cur_dttm /\ cur_dttm < cp.tr_dttm
    THEN cp.tr_dttm
    ELSE cur_dttm + DELTA

\* A variant that sets the attributes and arms no timer.
elevation_arm_none(e, cur_dttm, cur_elev, nxt_dttm) ==
    [set_attrs([e EXCEPT !.prv_dttm = cur_dttm],
               attrs_at_elev(e, cur_elev), nxt_dttm)
        EXCEPT !.unsub_update = 0]

\* Sun2ElevationSensor._update: from _set_attrs to the arming of the timer
elevation_arm(e, cur_dttm, cur_elev, nxt_dttm) ==
    [ArmTimer(set_attrs([e EXCEPT !.prv_dttm = cur_dttm],
                        attrs_at_elev(e, cur_elev), nxt_dttm),
              "async_schedule_update", nxt_dttm)
        EXCEPT !.unsub_update = e.nextId]

\* Sun2ElevationSensor._update: once the state and _cp are set
elevation_schedule(e, cur_dttm, cur_elev) ==
    elevation_arm(e, cur_dttm, cur_elev,
                  elevation_nxt_dttm(e.cp[1], cur_dttm,
                                     elevation_extrapolate(e, cur_dttm)))

\* A variant of _update that sets the state only when it renews the segment.
elevation_update_at_renewed(e, cur_dttm, cur_elev) ==
    IF e.cp = <<>> \/ cur_dttm >= e.cp[1].tr_dttm
    THEN elevation_schedule(
             [e EXCEPT !.native_value = <<Round1(cur_elev)>>,
                       !.prv_dttm = None,
                       !.cp = <<get_curve_params(e.astral, cur_dttm)>>],
             cur_dttm, cur_elev)
    ELSE elevation_schedule(e, cur_dttm, cur_elev)

\* Sun2ElevationSensor._update: once cur_elev is known
elevation_update_at(e, cur_dttm, cur_elev) ==
    IF e.cp = <<>> \/ cur_dttm >= e.cp[1].tr_dttm
    THEN elevation_schedule(
             [e EXCEPT !.native_value = <<Round1(cur_elev)>>,
                       !.prv_dttm = None,
                       !.cp = <<get_curve_params(e.astral, cur_dttm)>>],
             cur_dttm, cur_elev)
    ELSE elevation_schedule([e EXCEPT !.native_value = <<Round1(cur_elev)>>],
                            cur_dttm, cur_elev)

\* Sun2ElevationSensor._update
elevation_update(e, cur_dttm) ==
    elevation_update_at(e, cur_dttm, solar_elevation(e.astral, cur_dttm))

\* ------------------------------------------------------------- phase sensors
\* Sequence helpers for the list expressions of Sun2PhaseSensor.__init__.
Reverse(s) == [i \in 1 .. Len(s) |-> s[Len(s) + 1 - i]]

\* s[1:-1]
Inner(s) == SubSeq(s, 2, Len(s) - 1)

\* s[:-1]
Front(s) == SubSeq(s, 1, Len(s) - 1)

\* zip(a, b)
Zip(a, b) == [i \in 1 .. Min2(Len(a), Len(b)) |-> <<a[i], b[i]>>]

\* The elements of a sequence
Elems(s) == {s[i] : i \in 1 .. Len(s)}

\* The least element of a set of numbers
Least(S) == CHOOSE x \in S : \A y \in S : x <= y

\* sorted(S), for a set of numbers
RECURSIVE SortedSeq(_)
SortedSeq(S) ==
    IF S = {} THEN <<>> ELSE <<Least(S)>> \o SortedSeq(S \ {Least(S)})

\* Sun2PhaseSensor.__init__: phases (the state None is written "None")
SunPhases ==
    << <<-90000, "night">>, <<-18000, "astronomical_twilight">>,
       <<-12000, "nautical_twilight">>, <<-6000, "civil_twilight">>,
       <<SUNSET_ELEV, "day">>, <<90000, "None">> >>

\* Sun2PhaseSensor.__init__: elevs, states = zip(*phases)
PhaseElevs == [i \in 1 .. Len(SunPhases) |-> SunPhases[i][1]]

PhaseStates == [i \in 1 .. Len(SunPhases) |-> SunPhases[i][2]]

\* PhaseData
PhaseData(rising_elevs, rising_states, falling_elevs, falling_states) ==
    [rising_elevs |-> rising_elevs, rising_states |-> rising_states,
     falling_elevs |-> falling_elevs, falling_states |-> falling_states]

\* Sun2PhaseSensor.__init__: rising_elevs
SunRisingElevs == SortedSeq(Elems(Inner(PhaseElevs)) \cup {-4000, 6000})

\* A variant of the PhaseData of Sun2PhaseSensor whose falling states pair each
\* threshold with the phase above it (states[1:]), not the phase below it.
SunPhaseDataUnshifted ==
    PhaseData(SunRisingElevs, Front(SunPhases), Reverse(SunRisingElevs),
              Reverse(Zip(Tail(PhaseElevs), Tail(PhaseStates))))

\* Sun2PhaseSensor.__init__: the PhaseData it passes to its base class
SunPhaseData ==
    PhaseData(SunRisingElevs, Front(SunPhases), Reverse(SunRisingElevs),
              Reverse(Zip(Tail(PhaseElevs), Front(PhaseStates))))

\* Sun2DeconzDaylightSensor.__init__: phases (None is written "None")
DeconzPhases ==
    << <<-90000, "nadir", "None">>, <<-18000, "night_end", "night_start">>,
       <<-12000, "nautical_dawn", "nautical_dusk">>, <<-6000, "dawn", "dusk">>,
       <<SUNSET_ELEV, "sunrise_start", "sunset_end">>,
       <<-300, "sunrise_end", "sunset_start">>,
       <<6000, "golden_hour_1", "golden_hour_2">>,
       <<90000, "None", "solar_noon">> >>

\* Sun2DeconzDaylightSensor.__init__: elevs, r_states, f_states = zip(*phases)
Column(rows, k) == [i \in 1 .. Len(rows) |-> rows[i][k]]

\* Sun2DeconzDaylightSensor.__init__: the PhaseData it passes to its base
\* class
DeconzPhaseData ==
    PhaseData(Inner(Column(DeconzPhases, 1)),
              Zip(Front(Column(DeconzPhases, 1)), Front(Column(DeconzPhases, 2))),
              Reverse(Inner(Column(DeconzPhases, 1))),
              Reverse(Zip(Tail(Column(DeconzPhases, 1)),
                          Tail(Column(DeconzPhases, 3)))))

\* Sun2PhaseSensorBase.__init__: options, the labels of the rising states and
\* those of the falling states that are not among them
phase_options(d) ==
    {d.rising_states[i][2] : i \in 1 .. Len(d.rising_states)}
    \cup {d.falling_states[i][2] : i \in 1 .. Len(d.falling_states)}

\* self._d, by sensor type
PhaseDataOf(kind) ==
    IF kind = "deconz_daylight" THEN DeconzPhaseData ELSE SunPhaseData

\* s[-1]
Last(s) == s[Len(s)]

\* A variant of _state_at_elev that takes the first of the filtered states,
\* not the last.
state_at_elev_first(d, cp, elev) ==
    IF cp.rising
    THEN Head(SelectSeq(d.rising_states, LAMBDA x : elev >= x[1]))[2]
    ELSE Head(SelectSeq(d.falling_states, LAMBDA x : elev <= x[1]))[2]

\* Sun2PhaseSensorBase._state_at_elev: list(filter(...))
states_at_elev(d, cp, elev) ==
    IF cp.rising
    THEN SelectSeq(d.rising_states, LAMBDA x : elev >= x[1])
    ELSE SelectSeq(d.falling_states, LAMBDA x : elev <= x[1])

\* Sun2PhaseSensorBase._state_at_elev
state_at_elev(d, cp, elev) ==
    IF cp.rising
    THEN Last(SelectSeq(d.rising_states, LAMBDA x : elev >= x[1]))[2]
    ELSE Last(SelectSeq(d.falling_states, LAMBDA x : elev <= x[1]))[2]

\* Update; gen is a ghost field, the astral-data generation it was made in
Update(remove, when, state, attrs, gen) ==
    [remove |-> remove, when |-> when, state |-> state, attrs |-> attrs,
     gen |-> gen]

\* A variant of _setup_update_at_time that puts the entry at the head of the
\* queue.
setup_update_at_time_front(e, update_dttm, state, attrs) ==
    [ArmTimer(e, "_async_do_update", update_dttm)
        EXCEPT !.updates = <<Update(e.nextId, update_dttm, state, attrs, e.gen)>> \o @]

\* Sun2PhaseSensorBase._setup_update_at_time
setup_update_at_time(e, update_dttm, state, attrs) ==
    [ArmTimer(e, "_async_do_update", update_dttm)
        EXCEPT !.updates = Append(@, Update(e.nextId, update_dttm, state, attrs, e.gen))]

\* get_est_dttm of _setup_update_at_elev; offset is in days.  None stands for
\* the TypeError or AttributeError that nearest_second raises when astral
\* returns None.
get_est_dttm(e, elev, offset) ==
    time_at_elevation(e.astral, e.cp[1].mid_date + offset, elev, e.cp[1].rising)

\* self._cp.tl_dttm <= est_dttm < self._cp.tr_dttm
est_inside(cp, est_dttm) == cp.tl_dttm <= est_dttm /\ est_dttm < cp.tr_dttm

\* _setup_update_at_elev: the second estimate, a day later or earlier, when
\* the first is outside [tL, tR)
est_retry(e, elev, est_dttm) ==
    IF est_dttm = None \/ est_inside(e.cp[1], est_dttm) THEN est_dttm
    ELSE get_est_dttm(e, elev, IF est_dttm < e.cp[1].tl_dttm THEN 1 ELSE -1)

\* _setup_update_at_elev: <<t0_dttm, t1_dttm>> for the estimate est_dttm
est_bracket_of(cp, est_dttm) ==
    IF est_dttm = None \/ ~est_inside(cp, est_dttm)
    THEN <<cp.tl_dttm, cp.tr_dttm>>
    ELSE <<Max2(est_dttm - DELTA, cp.tl_dttm), Min2(est_dttm + DELTA, cp.tr_dttm)>>

\* The bracket <<t0_dttm, t1_dttm>> that _setup_update_at_elev hands to
\* _get_dttm_at_elev.
est_bracket(e, elev) ==
    est_bracket_of(e.cp[1], est_retry(e, elev, get_est_dttm(e, elev, 0)))

\* _setup_update_at_elev: update_dttm, for the bracket b
bracket_dttm_at_elev(e, b, elev) ==
    get_dttm_at_elev(e.astral, e.cp[1], b[1], b[2], elev, MAX_ERR_PHASE)

\* A variant that queues the transition at tr_dttm when update_dttm is None.
setup_update_found_anyway(e, elev, update_dttm) ==
    IF update_dttm # None
    THEN setup_update_at_time(e, update_dttm,
                              state_at_elev(PhaseDataOf(e.kind), e.cp[1], elev),
                              attrs_at_elev(e, elev))
    ELSE setup_update_at_time([e EXCEPT !.errors = @ + 1], e.cp[1].tr_dttm,
                              state_at_elev(PhaseDataOf(e.kind), e.cp[1], elev),
                              attrs_at_elev(e, elev))

\* _setup_update_at_elev: what is done with update_dttm (hass.state is
\* CoreState.running)
setup_update_found(e, elev, update_dttm) ==
    IF update_dttm # None
    THEN setup_update_at_time(e, update_dttm,
                              state_at_elev(PhaseDataOf(e.kind), e.cp[1], elev),
                              attrs_at_elev(e, elev))
    ELSE [e EXCEPT !.errors = @ + 1]

\* Sun2PhaseSensorBase._setup_update_at_elev
setup_update_at_elev(e, elev) ==
    setup_update_found(e, elev, bracket_dttm_at_elev(e, est_bracket(e, elev), elev))

\* cur_elev < elev < tr_elev when rising, cur_elev > elev > tr_elev when not
elev_ahead(cp, cur_elev, elev) ==
    IF cp.rising THEN cur_elev < elev /\ elev < cp.tr_elev
    ELSE cur_elev > elev /\ elev > cp.tr_elev

\* The loop of Sun2PhaseSensorBase._setup_updates over elevs[i ..]
RECURSIVE setup_updates_from(_, _, _, _)
setup_updates_from(e, elevs, i, cur_elev) ==
    IF i > Len(elevs) THEN e
    ELSE setup_updates_from(IF elev_ahead(e.cp[1], cur_elev, elevs[i])
                            THEN setup_update_at_elev(e, elevs[i]) ELSE e,
                            elevs, i + 1, cur_elev)

\* Sun2PhaseSensorBase._setup_updates
base_setup_updates(e, cur_dttm, cur_elev) ==
    setup_updates_from(e, IF e.cp[1].rising THEN PhaseDataOf(e.kind).rising_elevs
                          ELSE PhaseDataOf(e.kind).falling_elevs, 1, cur_elev)

\* Sun2DeconzDaylightSensor._setup_updates, rising: the state is set and the
\* transition to nadir is queued when cur_dttm < nadir_dttm
deconz_queue_nadir(e, cur_dttm, nadir_dttm) ==
    IF cur_dttm < nadir_dttm
    THEN setup_update_at_time(
             [e EXCEPT !.native_value = <<Last(PhaseDataOf(e.kind).falling_states)[2]>>],
             nadir_dttm, PhaseDataOf(e.kind).rising_states[1][2],
             attrs_at_elev(e, solar_elevation(e.astral, nadir_dttm)))
    ELSE e

\* Sun2DeconzDaylightSensor._setup_updates, falling: the state is set when
\* cur_dttm >= nadir_dttm
deconz_at_nadir(e, cur_dttm, nadir_dttm) ==
    IF cur_dttm >= nadir_dttm
    THEN [e EXCEPT !.native_value = <<PhaseDataOf(e.kind).rising_states[1][2]>>]
    ELSE e

\* Sun2DeconzDaylightSensor._setup_updates
deconz_setup_updates(e, cur_dttm, cur_elev) ==
    base_setup_updates(
        IF e.cp[1].rising
        THEN deconz_queue_nadir(e, cur_dttm, e.cp[1].tr_dttm - HALF_DAY)
        ELSE deconz_at_nadir(e, cur_dttm, e.cp[1].nxt_noon - HALF_DAY),
        cur_dttm, cur_elev)

\* self._setup_updates, by sensor type
setup_updates(e, cur_dttm, cur_elev) ==
    IF e.kind = "deconz_daylight" THEN deconz_setup_updates(e, cur_dttm, cur_elev)
    ELSE base_setup_updates(e, cur_dttm, cur_elev)

\* A variant of _cancel_update that cancels the timer of the head of the queue
\* only.
phase_cancel_update_head(e) ==
    [CancelTimers(e, {e.updates[i].remove : i \in 1 .. Min2(1, Len(e.updates))})
        EXCEPT !.updates = <<>>]

\* Sun2PhaseSensorBase._cancel_update
phase_cancel_update(e) ==
    [CancelTimers(e, {e.updates[i].remove : i \in 1 .. Len(e.updates)})
        EXCEPT !.updates = <<>>]

\* Sun2PhaseSensorBase._update: self._set_attrs(...)
phase_set_attrs(e, cur_elev) ==
    set_attrs(e, attrs_at_elev(e, cur_elev), e.updates[1].when)

\* A variant that leaves the state as _setup_updates left it.
phase_set_state_kept(e, cur_elev) == phase_set_attrs(e, cur_elev)

\* Sun2PhaseSensorBase._update: from "if not self._attr_native_value"
phase_set_state(e, cur_elev) ==
    phase_set_attrs(IF e.native_value = <<>>
                    THEN [e EXCEPT !.native_value =
                             <<state_at_elev(PhaseDataOf(e.kind), e.cp[1], cur_elev)>>]
                    ELSE e,
                    cur_elev)

\* A variant that puts the marker at the head of the queue.
phase_queue_marker_first(e) ==
    setup_update_at_time_front(e, e.cp[1].tr_dttm, "None", <<>>)

\* Sun2PhaseSensorBase._update: self._setup_update_at_time(self._cp.tr_dttm)
phase_queue_marker(e) == setup_update_at_time(e, e.cp[1].tr_dttm, "None", <<>>)

\* Sun2PhaseSensorBase._update: once _cp is set and cur_elev is known
phase_update_at(e, cur_dttm, cur_elev) ==
    phase_set_state(phase_queue_marker(setup_updates(e, cur_dttm, cur_elev)),
                    cur_elev)

\* A variant of _update that builds the transitions whatever the queue holds.
phase_update_anew(e, cur_dttm) ==
    phase_update_at([e EXCEPT !.cp = <<get_curve_params(e.astral, cur_dttm)>>,
                              !.native_value = <<>>],
                    cur_dttm, solar_elevation(e.astral, cur_dttm))

\* Sun2PhaseSensorBase._update
phase_update(e, cur_dttm) ==
    IF e.updates # <<>> THEN e
    ELSE phase_update_at([e EXCEPT !.cp = <<get_curve_params(e.astral, cur_dttm)>>,
                                   !.native_value = <<>>],
                         cur_dttm, solar_elevation(e.astral, cur_dttm))

\* A variant that applies the state of the new head of the queue.
do_update_next(e, update) ==
    IF e.updates # <<>>
    THEN set_attrs([e EXCEPT !.native_value = <<e.updates[1].state>>],
                   update.attrs, e.updates[1].when)
    ELSE [e EXCEPT !.updReq = @ + 1]

\* Sun2PhaseSensorBase._async_do_update, once update is popped
do_update(e, update) ==
    IF e.updates # <<>>
    THEN [set_attrs([e EXCEPT !.native_value = <<update.state>>],
                    update.attrs, e.updates[1].when)
            EXCEPT !.stale = @ \/ update.gen # e.gen]
    ELSE [e EXCEPT !.updReq = @ + 1]

\* Sun2PhaseSensorBase._async_do_update (pop(0) of an empty list raises
\* IndexError, which the event loop logs as an error)
async_do_update(e) ==
    IF e.updates = <<>> THEN [e EXCEPT !.errors = @ + 1]
    ELSE do_update([e EXCEPT !.updates = Tail(@)], Head(e.updates))

\* The callback async_schedule_update of Sun2ElevationSensor._update
async_schedule_update(e) == [e EXCEPT !.unsub_update = 0, !.updReq = @ + 1]

\* self._update, by sensor type
entity_update(e, cur_dttm) ==
    IF e.kind = "elevation" THEN elevation_update(e, cur_dttm)
    ELSE IF e.kind = "azimuth" THEN azimuth_update(e, cur_dttm)
    ELSE phase_update(e, cur_dttm)

\* self._cancel_update, by sensor type
cancel_update(e) ==
    IF e.kind \in {"sun_phase", "deconz_daylight"} THEN phase_cancel_update(e)
    ELSE base_cancel_update(e)

\* Sun2Entity._update_astral_data, with the override of Sun2CPSensorEntity
\* that clears _cp first (the azimuth sensor has no _cp)
update_astral_data(e, astral_data) ==
    [cancel_update([e EXCEPT !.cp = <<>>])
        EXCEPT !.astral = astral_data, !.gen = @ + 1]

\* -------------------------------------------- the date-based sensors
\* A Sun2SensorEntity with fixed updating (a sensor of an event of the day).
\* Fields: tzi, the time zone of _astral_data.loc_data as its offset from UTC
\* in seconds; native_value, <<>> or <<the local date of the last update>>;
\* unsub_update, timers, nextId and updReq as above; removed, whether the
\* entity has been removed.
NewDateEntity(tzi) ==
    [kind |-> "date", tzi |-> tzi, native_value |-> <<>>, unsub_update |-> 0,
     timers |-> {}, nextId |-> 1, updReq |-> 0, removed |-> FALSE]

\* next_midnight(dttm), for dttm in the time zone tzi
next_midnight(dttm, tzi) == (DateOf(dttm + tzi) + 1) * ONE_DAY - tzi

\* Sun2SensorEntity._setup_fixed_updating at instant t
setup_fixed_updating(e, t) ==
    [ArmTimer(e, "async_schedule_update_at_midnight", next_midnight(t, e.tzi))
        EXCEPT !.unsub_update = e.nextId]

\* The callback async_schedule_update_at_midnight(now) of
\* _setup_fixed_updating
async_schedule_update_at_midnight(e, t) ==
    [setup_fixed_updating(e, t) EXCEPT !.updReq = @ + 1]

\* Sun2SensorEntity._update: the date whose events it asks for
date_update(e, cur_dttm) ==
    [e EXCEPT !.native_value = <<DateOf(cur_dttm + e.tzi)>>]

\* A variant of _update_astral_data that does not cancel the pending timer.
date_update_astral_data_kept(e, tzi, t) ==
    setup_fixed_updating([e EXCEPT !.tzi = tzi], t)

\* Sun2Entity._update_astral_data at instant t, with astral data of time
\* zone tzi
date_update_astral_data(e, tzi, t) ==
    setup_fixed_updating([base_cancel_update(e) EXCEPT !.tzi = tzi], t)

\* ------------------------------------------------------------- binary_sensor.py
\* DEFAULT_ELEVATION_ABOVE
DEFAULT_ELEVATION_ABOVE == -833
\* _find_nxt_dttm: abs(tn_elev - self._threshold) <= 0.01
BIN_MAX_ERR == 10
\* _get_nxt_dttm: end_date = date + 366 * _ONE_DAY
LOOK_AHEAD_DAYS == 366

\* The binary Sun2ElevationSensor and what it has armed.  Fields:
\*   threshold     _threshold
\*   info          _info: the oracle profile in use
\*   state         _state: <<>> (None) or <<BOOLEAN>>
\*   next_change   _next_change
\*   unsub_update  _unsub_update: 0 (None) or the id of the timer it cancels
\*   timers, nextId, updReq   as for the sensors of sensor.py
\*   log           what the latest async_update logged: "warning", "error"
\*   raised        the exception the latest async_update raised ("" for none)
\*   upd_at, upd_info   ghost: the instant of the latest async_update and the
\*                 profile it used
NewBinary(threshold, p) ==
    [threshold |-> threshold, info |-> p, state |-> <<>>, next_change |-> None,
     unsub_update |-> 0, timers |-> {}, nextId |-> 1, updReq |-> 0,
     log |-> <<>>, raised |-> "", upd_at |-> None, upd_info |-> p]

\* The while condition of _find_nxt_dttm, negated: tn is on the far side of
\* the threshold and within 0.01 of it.
find_nxt_done(state, threshold, tn_elev) ==
    /\ IF state THEN tn_elev <= threshold ELSE tn_elev > threshold
    /\ Abs(tn_elev - threshold) <= BIN_MAX_ERR

\* nearest_second(t0_dttm + (t1_dttm - t0_dttm) / 2)
mid_dttm(t0_dttm, t1_dttm) == t0_dttm + RoundHalfUp(t1_dttm - t0_dttm, 2)

\* The binary search of _find_nxt_dttm: <<tn_dttm, tn_elev>> when it ends.
RECURSIVE find_nxt_loop(_, _, _, _, _, _, _, _)
RECURSIVE find_nxt_mid(_, _, _, _, _, _, _)
find_nxt_mid(p, state, threshold, slope, t0_dttm, t1_dttm, tn_dttm) ==
    find_nxt_loop(p, state, threshold, slope, t0_dttm, t1_dttm, tn_dttm,
                  solar_elevation(p, tn_dttm))

find_nxt_loop(p, state, threshold, slope, t0_dttm, t1_dttm, tn_dttm, tn_elev) ==
    IF find_nxt_done(state, threshold, tn_elev) THEN <<tn_dttm, tn_elev>>
    ELSE IF (tn_elev - threshold) * slope > 0
    THEN IF t1_dttm = tn_dttm THEN <<tn_dttm, tn_elev>>
         ELSE find_nxt_mid(p, state, threshold, slope, t0_dttm, tn_dttm,
                           mid_dttm(t0_dttm, tn_dttm))
    ELSE IF t0_dttm = tn_dttm THEN <<tn_dttm, tn_elev>>
         ELSE find_nxt_mid(p, state, threshold, slope, tn_dttm, t1_dttm,
                           mid_dttm(tn_dttm, t1_dttm))

\* What _find_nxt_dttm or _get_nxt_dttm hands back: the instant (or None),
\* the exception raised ("" for none) and whether a warning was logged.
NxtResult(dttm, exc, warned) == [dttm |-> dttm, exc |-> exc, warned |-> warned]

\* _find_nxt_dttm: "Did we go too far?", for the instant one second back
too_far_check(p, state, threshold, tn_dttm) ==
    IF state = (solar_elevation(p, tn_dttm) > threshold)
    THEN NxtResult(None, "RuntimeError", FALSE)
    ELSE NxtResult(tn_dttm, "", FALSE)

\* _find_nxt_dttm: "Did we go too far?"
too_far(p, state, threshold, slope, tn) ==
    IF state /\ tn[2] > threshold
    THEN too_far_check(p, state, threshold, tn[1] - slope * ONE_SEC)
    ELSE IF ~state /\ tn[2] <= threshold
    THEN too_far_check(p, state, threshold, tn[1] + slope * ONE_SEC)
    ELSE NxtResult(tn[1], "", FALSE)

\* Sun2ElevationSensor._find_nxt_dttm, for slope
find_nxt_slope(p, state, threshold, t0_dttm, t1_dttm, slope) ==
    too_far(p, state, threshold, slope,
            find_nxt_mid(p, state, threshold, slope, t0_dttm, t1_dttm,
                         mid_dttm(t0_dttm, t1_dttm)))

\* Sun2ElevationSensor._find_nxt_dttm
find_nxt_dttm(p, state, threshold, t0_dttm, t0_elev, t1_dttm, t1_elev) ==
    find_nxt_slope(p, state, threshold, t0_dttm, t1_dttm,
                   IF t1_elev > t0_elev THEN 1 ELSE -1)

\* _get_nxt_dttm: <<t0_dttm, t1_dttm>> among the five events from date on
nxt_segment(state, cur_dttm, evt_dttm1, evt_dttm2, evt_dttm3, evt_dttm4, evt_dttm5) ==
    IF cur_dttm < evt_dttm1
    THEN IF state THEN <<cur_dttm, evt_dttm1>> ELSE <<evt_dttm1, evt_dttm2>>
    ELSE IF cur_dttm < evt_dttm2
    THEN IF ~state THEN <<cur_dttm, evt_dttm2>> ELSE <<evt_dttm2, evt_dttm3>>
    ELSE IF cur_dttm < evt_dttm3
    THEN IF state THEN <<cur_dttm, evt_dttm3>> ELSE <<evt_dttm3, evt_dttm4>>
    ELSE IF ~state THEN <<cur_dttm, evt_dttm4>> ELSE <<evt_dttm4, evt_dttm5>>

\* A variant of the warning of _get_nxt_dttm that compares with half a day.
warn_far_half(cur_dttm, nxt) ==
    IF nxt.exc = "" /\ nxt.dttm - cur_dttm > HALF_DAY
    THEN NxtResult(nxt.dttm, "", TRUE) ELSE nxt

\* _get_nxt_dttm: the warning when the next change is more than a day away
warn_far(cur_dttm, nxt) ==
    IF nxt.exc = "" /\ nxt.dttm - cur_dttm > ONE_DAY
    THEN NxtResult(nxt.dttm, "", TRUE) ELSE nxt

\* _get_nxt_dttm: "Did we find it?"
crosses(threshold, t0_elev, t1_elev) ==
    \/ t0_elev <= threshold /\ threshold < t1_elev
    \/ t1_elev <= threshold /\ threshold <= t0_elev

\* _get_nxt_dttm: <<t0_dttm, t1_dttm>> in the pass of the while loop for
\* date; the five events are those of date, which is what the shift at the
\* end of each pass leaves in evt_dttm1 .. evt_dttm5.
nxt_segment_of(p, state, cur_dttm, date) ==
    nxt_segment(state, cur_dttm,
                solar_midnight(p, date), solar_noon(p, date),
                solar_midnight(p, date + 1), solar_noon(p, date + 1),
                solar_midnight(p, date + 2))

\* _get_nxt_dttm: "Did we find it?", for the segment seg
seg_crosses(p, threshold, seg) ==
    crosses(threshold, solar_elevation(p, seg[1]), solar_elevation(p, seg[2]))

\* _get_nxt_dttm: the date of the first pass of the while loop, among those
\* for the dates from .. to, that finds the segment; None when none does.
\* (The passes for the first half of the dates, then those for the rest.)
RECURSIVE found_date(_, _, _, _, _, _)
RECURSIVE found_after(_, _, _, _, _, _, _)
found_after(p, state, threshold, cur_dttm, date, from, to) ==
    IF date # None THEN date
    ELSE found_date(p, state, threshold, cur_dttm, from, to)

found_date(p, state, threshold, cur_dttm, from, to) ==
    IF from > to THEN None
    ELSE IF from = to
    THEN IF seg_crosses(p, threshold, nxt_segment_of(p, state, cur_dttm, from))
         THEN from ELSE None
    ELSE found_after(p, state, threshold, cur_dttm,
                     found_date(p, state, threshold, cur_dttm,
                                from, from + (to - from) \div 2),
                     from + (to - from) \div 2 + 1, to)

\* _get_nxt_dttm: the call of _find_nxt_dttm for the segment seg
find_nxt_in(p, state, threshold, seg) ==
    find_nxt_dttm(p, state, threshold, seg[1], solar_elevation(p, seg[1]),
                  seg[2], solar_elevation(p, seg[2]))

\* The while loop of _get_nxt_dttm: it returns from the first pass that finds
\* the segment, and None when none of them does.
get_nxt_found(p, state, threshold, cur_dttm, date) ==
    IF date = None THEN NxtResult(None, "", FALSE)
    ELSE warn_far(cur_dttm,
                  find_nxt_in(p, state, threshold,
                              nxt_segment_of(p, state, cur_dttm, date)))

\* Sun2ElevationSensor._get_nxt_dttm
get_nxt_dttm(p, state, threshold, cur_dttm) ==
    get_nxt_found(p, state, threshold, cur_dttm,
                  found_date(p, state, threshold, cur_dttm, DateOf(cur_dttm),
                             DateOf(cur_dttm) + LOOK_AHEAD_DAYS - 1))

\* dt_util.as_local(dattim): it reads dattim.tzinfo, so None raises
\* AttributeError; an instant is the same instant in the local time zone.
as_local(nxt) ==
    IF nxt.exc = "" /\ nxt.dttm = None
    THEN NxtResult(None, "AttributeError", nxt.warned) ELSE nxt

\* Sun2ElevationSensor.async_update, from "if nxt_dttm:"
bin_arm(b, nxt_dttm) ==
    IF nxt_dttm # None
    THEN [b EXCEPT !.timers = @ \cup {[id |-> b.nextId, at |-> nxt_dttm,
                                       cb |-> "async_update"]},
                   !.nextId = @ + 1, !.unsub_update = b.nextId]
    ELSE [b EXCEPT !.log = Append(@, "error")]

\* Sun2ElevationSensor.async_update, once _get_nxt_dttm has returned nxt and
\* dt_util.as_local(nxt_dttm) local
bin_next_change(b, nxt, local) ==
    IF nxt.exc # "" THEN [b EXCEPT !.raised = nxt.exc]
    ELSE IF local.exc # ""
    THEN [b EXCEPT !.raised = local.exc,
                   !.log = IF nxt.warned THEN <<"warning">> ELSE <<>>]
    ELSE bin_arm([b EXCEPT !.next_change = local.dttm,
                           !.log = IF nxt.warned THEN <<"warning">> ELSE <<>>],
                 nxt.dttm)

\* Sun2ElevationSensor.async_update, once _get_nxt_dttm has returned nxt
bin_nxt(b, nxt) == bin_next_change(b, nxt, as_local(nxt))

\* Sun2ElevationSensor.async_update, once _state is set
bin_update_state(b, cur_dttm) ==
    bin_nxt(b, get_nxt_dttm(b.info, b.state[1], b.threshold, cur_dttm))

\* A variant of async_update that compares the elevation with the threshold the
\* wrong way round.
bin_async_update_below(b, cur_dttm) ==
    bin_update_state([b EXCEPT !.state = <<solar_elevation(b.info, cur_dttm) < b.threshold>>,
                               !.log = <<>>, !.raised = "",
                               !.upd_at = cur_dttm, !.upd_info = b.info],
                     cur_dttm)

\* Sun2ElevationSensor.async_update
bin_async_update(b, cur_dttm) ==
    bin_update_state([b EXCEPT !.state = <<solar_elevation(b.info, cur_dttm) > b.threshold>>,
                               !.log = <<>>, !.raised = "",
                               !.upd_at = cur_dttm, !.upd_info = b.info],
                     cur_dttm)

\* The callback async_update of Sun2ElevationSensor.async_update
bin_timer_callback(b) == [b EXCEPT !.unsub_update = 0, !.updReq = @ + 1]

\* Sun2ElevationSensor.async_loc_updated
async_loc_updated(b, p) ==
    [b EXCEPT !.timers = {t \in @ : t.id # b.unsub_update},
              !.unsub_update = 0, !.info = p, !.updReq = @ + 1]

\* ------------------------------------------------------------- __init__.py
\* Config entries, the YAML configuration and Home Assistant's core config.
\* A location config of YAML is [unique_id, location, options]; location is
\* NoLocation when the key is absent. The options of an entry are
\* [latitude, sensors]: latitude is None when the entry uses Home Assistant's
\* location, and sensors stands for the lists of additional sensors.  The
\* option observer_elevation is <<>> when absent and else <<east, west>>, each
\* <<n>> (above ground) or <<height, distance>> (an obstruction); elevation is
\* the deprecated option, 0 when absent.
SOURCE_IMPORT == "import"
SOURCE_USER == "user"
NoLocation == ""
NoUniqueId == ""

\* sun2_data(hass).config_data[entry_id] of an entry that is not set up
NoData ==
    [set |-> FALSE, title |-> "", sensors |-> 0, loc_data |-> None,
     obs_elvs |-> <<>>]

\* get_loc_data of entry options: None when they hold no location.
get_loc_data(options) == options.latitude

\* ObsElvs._obs_elv_2_astral: a number is kept; [height, distance] becomes
\* (-copysign(1, height) * distance, fabs(height)).
obs_elv_2_astral(obs_elv) ==
    IF Len(obs_elv) = 1 THEN obs_elv
    ELSE <<(IF obs_elv[1] >= 0 THEN -1 ELSE 1) * obs_elv[2], Abs(obs_elv[1])>>

\* ObsElvs.from_entry_options: <<east, west>>
from_entry_options(options) ==
    IF options.obs_elv # <<>>
    THEN <<obs_elv_2_astral(options.obs_elv[1]),
           obs_elv_2_astral(options.obs_elv[2])>>
    ELSE <<<<options.elevation>>, <<options.elevation>>>>

\* get_loc_data of Home Assistant's core config
get_ha_loc_data(config) == config.latitude

\* ConfigEntryState.recoverable
recoverable(entry) == entry.state \in {"not_loaded", "loaded"}

\* No effect of an operation recorded yet: the entries removed, the calls of
\* async_update_entry and async_reload with who made them, the import flows
\* started and their results, the signals dispatched, the loads of YAML.
NoEffects ==
    [removed |-> <<>>, updated |-> <<>>, reloaded |-> <<>>, flows |-> <<>>,
     results |-> <<>>, ha_loc_updated |-> 0, astral_data_updated |-> 0,
     yaml_loads |-> 0]

\* No user config flow in progress.  A flow is its step, the entry_ids of
\* _existing_entries (cached when the flow first looks at the entries),
\* _location_name and the options gathered so far.
NoFlow == [step |-> "", existing |-> <<>>, location_name |-> "",
           options |-> <<>>]

\* Home Assistant before the integration is set up.
NewHass(entries, yaml, config) ==
    [entries |-> entries, yaml |-> yaml, config |-> config, uflow |-> NoFlow,
     ha_loc_data |-> get_ha_loc_data(config), nextEntry |-> Len(entries) + 1,
     started |-> FALSE, ops |-> 0, op |-> "", event |-> {}, did |-> NoEffects]

NoHass == NewHass(<<>>, <<>>, [location_name |-> "Home", latitude |-> 10])

\* The position of the entry with this entry_id
entry_at(w, id) ==
    CHOOSE i \in 1 .. Len(w.entries) : w.entries[i].entry_id = id

\* async_setup_entry: the config data of the entry is stored and its update
\* listener added.
async_setup_entry(entry) ==
    [entry EXCEPT
        !.state = "loaded",
        !.config_data = [set |-> TRUE, title |-> entry.title,
                         sensors |-> entry.options.sensors,
                         loc_data |-> get_loc_data(entry.options),
                         obs_elvs |-> from_entry_options(entry.options)]]

\* async_unload_entry: the config data is deleted, and the result is that of
\* unloading the platforms.
async_unload_entry(entry) ==
    [entry EXCEPT
        !.state = IF entry.unloads THEN "not_loaded" ELSE "failed_unload",
        !.config_data = NoData]

\* hass.config_entries.async_reload of a recoverable entry: unload it when
\* it is loaded and, unless that failed, set it up.
reload_entry(entry) ==
    IF entry.state = "loaded" /\ ~entry.unloads THEN async_unload_entry(entry)
    ELSE async_setup_entry(entry)

async_reload(w, id, by) ==
    [w EXCEPT
        !.entries[entry_at(w, id)] = reload_entry(@),
        !.did.reloaded = Append(@, [entry_id |-> id, by |-> by])]

\* A variant of entry_updated that looks at the location data only.
entry_updated_at_loc(w, i, entry) ==
    IF /\ entry.title = entry.config_data.title
       /\ entry.options.sensors = entry.config_data.sensors
    THEN IF get_loc_data(entry.options) # entry.config_data.loc_data
         THEN [w EXCEPT
                 !.entries[i].config_data.loc_data = get_loc_data(entry.options),
                 !.entries[i].config_data.obs_elvs = from_entry_options(entry.options),
                 !.did.astral_data_updated = @ + 1]
         ELSE w
    ELSE IF recoverable(entry) THEN async_reload(w, entry.entry_id, "entry_updated")
    ELSE w

\* entry_updated, the update listener of a loaded entry
entry_updated_at(w, i, entry) ==
    IF /\ entry.title = entry.config_data.title
       /\ entry.options.sensors = entry.config_data.sensors
    THEN IF \/ get_loc_data(entry.options) # entry.config_data.loc_data
            \/ from_entry_options(entry.options) # entry.config_data.obs_elvs
         THEN [w EXCEPT
                 !.entries[i].config_data.loc_data = get_loc_data(entry.options),
                 !.entries[i].config_data.obs_elvs = from_entry_options(entry.options),
                 !.did.astral_data_updated = @ + 1]
         ELSE w
    ELSE IF recoverable(entry) THEN async_reload(w, entry.entry_id, "entry_updated")
    ELSE w

entry_updated(w, id) == entry_updated_at(w, entry_at(w, id), w.entries[entry_at(w, id)])

\* What hass.config_entries.async_update_entry returns: whether the title or
\* the options differ from the entry's.
update_changes(entry, title, options) ==
    entry.title # title \/ entry.options # options

\* hass.config_entries.async_update_entry(entry, title, options): when
\* anything changed, the update listeners of the entry run.
async_update_entry_at(w, i, entry, title, options, by) ==
    IF update_changes(entry, title, options) /\ entry.state = "loaded"
    THEN entry_updated(
            [w EXCEPT !.entries[i].title = title, !.entries[i].options = options,
                      !.did.updated = Append(@, [entry_id |-> entry.entry_id,
                                                 changed |-> TRUE, by |-> by])],
            entry.entry_id)
    ELSE [w EXCEPT !.entries[i].title = title, !.entries[i].options = options,
                   !.did.updated = Append(@,
                       [entry_id |-> entry.entry_id,
                        changed |-> update_changes(entry, title, options),
                        by |-> by])]

async_update_entry(w, id, title, options, by) ==
    async_update_entry_at(w, entry_at(w, id), w.entries[entry_at(w, id)],
                          title, options, by)

\* hass.config_entries.async_remove
async_remove(w, id) ==
    [w EXCEPT !.entries = SelectSeq(@, LAMBDA e : e.entry_id # id),
              !.did.removed = Append(@, id)]

\* ------------------------------------------------------------- config_flow.py
flow_reload_always(w, id) == async_reload(w, id, "flow")

\* reload of async_step_import
flow_reload(w, id) ==
    IF ~recoverable(w.entries[entry_at(w, id)]) THEN w
    ELSE async_reload(w, id, "flow")

\* async_set_unique_id: the entry of the domain with this unique_id, 0 if none
async_set_unique_id(w, unique_id) ==
    IF \E i \in 1 .. Len(w.entries) : w.entries[i].unique_id = unique_id
    THEN w.entries[CHOOSE i \in 1 .. Len(w.entries) :
                      w.entries[i].unique_id = unique_id].entry_id
    ELSE 0

\* The title of an import: the location of the config, or else the location
\* name of Home Assistant.
import_title(w, data) ==
    IF data.location # NoLocation THEN data.location ELSE w.config.location_name

\* async_create_entry(title, data={}, options): the flow manager adds the
\* entry and sets it up.
async_create_entry(w, unique_id, title, options) ==
    [w EXCEPT
        !.entries = Append(@, async_setup_entry(
            [entry_id |-> w.nextEntry, source |-> SOURCE_IMPORT,
             unique_id |-> unique_id, title |-> title, data |-> <<>>,
             options |-> options, state |-> "not_loaded", unloads |-> TRUE,
             config_data |-> NoData])),
        !.nextEntry = @ + 1,
        !.did.results = Append(@, [unique_id |-> unique_id, entry_id |-> w.nextEntry,
                                   type |-> "create_entry", changed |-> TRUE])]

\* The import of a config whose unique_id is that of an existing entry
import_existing(w, existing, title, options) ==
    LET changed == update_changes(w.entries[entry_at(w, existing)], title, options)
        w1 == async_update_entry(w, existing, title, options, "flow")
        w2 == IF ~changed THEN flow_reload(w1, existing) ELSE w1
    IN [w2 EXCEPT
          !.did.results = Append(@, [unique_id |-> w.entries[entry_at(w, existing)].unique_id,
                                     entry_id |-> existing,
                                     type |-> "abort: already_configured",
                                     changed |-> changed])]

async_step_import(w, data) ==
    IF async_set_unique_id(w, data.unique_id) # 0
    THEN import_existing(w, async_set_unique_id(w, data.unique_id),
                         import_title(w, data), data.options)
    ELSE async_create_entry(w, data.unique_id, import_title(w, data), data.options)

\* hass.config_entries.flow.async_init(DOMAIN, context={"source": SOURCE_IMPORT})
flow_async_init(w, conf) ==
    async_step_import([w EXCEPT !.did.flows = Append(@, conf)], conf)

\* ------------------------------------------- the user config flow
\* Sun2Flow._entries: the entries cached by the flow, as they are now
flow_entries(w) ==
    SelectSeq(w.entries, LAMBDA e : \E k \in 1 .. Len(w.uflow.existing) :
                                        w.uflow.existing[k] = e.entry_id)

\* Sun2Flow._any_using_ha_loc
any_using_ha_loc(w) ==
    \E k \in 1 .. Len(flow_entries(w)) : flow_entries(w)[k].options.latitude = None

\* async_step_use_home with user input
async_step_use_home(w, use_home) ==
    IF use_home
    THEN [w EXCEPT !.uflow.location_name = w.config.location_name,
                   !.uflow.options.latitude = None,
                   !.uflow.options.obs_elv = <<>>,
                   !.uflow.step = "entities_menu"]
    ELSE [w EXCEPT !.uflow.step = "location_name"]

\* hass.config_entries.async_entries(DOMAIN), as the flow caches it
async_entries(w) == [i \in 1 .. Len(w.entries) |-> w.entries[i].entry_id]

\* The flow starts with empty options and has cached the entries.
start_flow(w) ==
    [w EXCEPT !.uflow = [step |-> "user", existing |-> async_entries(w),
                         location_name |-> "",
                         options |-> [latitude |-> None, sensors |-> 0,
                                      obs_elv |-> <<>>, elevation |-> 0]]]

\* async_step_user
async_step_user(w) ==
    [start_flow(w) EXCEPT
        !.uflow.step = IF ~any_using_ha_loc(start_flow(w))
                       THEN "use_home" ELSE "location_name"]

\* async_step_location_name with user input: the form is shown again with
\* the error name_used when a cached entry has the name as its title.
async_step_location_name(w, name) ==
    IF \A k \in 1 .. Len(flow_entries(w)) : flow_entries(w)[k].title # name
    THEN [w EXCEPT !.uflow.location_name = name, !.uflow.step = "location"]
    ELSE [w EXCEPT !.uflow.location_name = name]

\* async_step_location with valid user input
async_step_location(w, latitude) ==
    [w EXCEPT !.uflow.options.latitude = latitude,
              !.uflow.step = "observer_elevation"]

\* async_step_observer_elevation and async_step_obs_elv_values with user input
async_step_obs_elv_values(w, obs_elv) ==
    [w EXCEPT !.uflow.options.obs_elv = obs_elv, !.uflow.step = "entities_menu"]

\* The steps that add a sensor, from the entities menu and back to it
async_step_add_entities(w) == [w EXCEPT !.uflow.options.sensors = 1]

\* Sun2ConfigFlow.async_step_done: async_create_entry(title=_location_name,
\* data={}, options=self.options); the flow manager adds the entry and sets
\* it up, and the flow is over.
async_step_done(w) ==
    [w EXCEPT
        !.entries = Append(@, async_setup_entry(
            [entry_id |-> w.nextEntry, source |-> SOURCE_USER,
             unique_id |-> NoUniqueId, title |-> w.uflow.location_name,
             data |-> <<>>, options |-> w.uflow.options,
             state |-> "not_loaded", unloads |-> TRUE, config_data |-> NoData])),
        !.nextEntry = @ + 1,
        !.uflow = NoFlow,
        !.did.results = Append(@, [unique_id |-> NoUniqueId, entry_id |-> w.nextEntry,
                                   type |-> "create_entry", changed |-> TRUE])]

\* ------------------------------------------------------------- _process_config
stale_entries_any(entries, unique_ids) ==
    SelectSeq(entries, LAMBDA e : e.unique_id \notin unique_ids)

\* The imported entries whose unique_id is not in unique_ids, in order
stale_entries(entries, unique_ids) ==
    SelectSeq(entries, LAMBDA e : e.source = SOURCE_IMPORT /\ e.unique_id \notin unique_ids)

RECURSIVE remove_all(_, _)
remove_all(w, stale) ==
    IF stale = <<>> THEN w
    ELSE remove_all(async_remove(w, stale[1].entry_id), Tail(stale))

RECURSIVE import_all(_, _)
import_all(w, configs) ==
    IF configs = <<>> THEN w
    ELSE import_all(flow_async_init(w, configs[1]), Tail(configs))

\* _process_config: one removal for each imported entry that YAML no longer
\* holds, then one import flow for each location config of YAML.
process_config(w, configs) ==
    import_all(
        remove_all(w, stale_entries(w.entries,
                                    {configs[i].unique_id : i \in 1 .. Len(configs)})),
        configs)

\* reload_config: YAML is read and processed.
reload_config(w) ==
    process_config([w EXCEPT !.did.yaml_loads = @ + 1], w.yaml)

\* The loop of handle_core_config_update over the entries
handler_reload(w, id) ==
    IF recoverable(w.entries[entry_at(w, id)]) THEN async_reload(w, id, "handler")
    ELSE w

after_title_always(w, id, changed) == handler_reload(w, id)

after_title(w, id, changed) == IF changed THEN w ELSE handler_reload(w, id)

retitle_entry(w, entry) ==
    IF entry.source = SOURCE_IMPORT THEN w
    ELSE IF entry.options.latitude = None
    THEN after_title(
            async_update_entry(w, entry.entry_id, w.config.location_name,
                               entry.options, "handler"),
            entry.entry_id,
            update_changes(entry, w.config.location_name, entry.options))
    ELSE handler_reload(w, entry.entry_id)

RECURSIVE retitle_all(_, _)
retitle_all(w, ids) ==
    IF ids = <<>> THEN w
    ELSE IF \E i \in 1 .. Len(w.entries) : w.entries[i].entry_id = ids[1]
    THEN retitle_all(retitle_entry(w, w.entries[entry_at(w, ids[1])]), Tail(ids))
    ELSE retitle_all(w, Tail(ids))

entry_ids(w) == [i \in 1 .. Len(w.entries) |-> w.entries[i].entry_id]

\* handle_core_config_update: keys are the keys of event.data, and w.config
\* is Home Assistant's core config after the update.
store_ha_loc_data(w) == [w EXCEPT !.ha_loc_data = get_ha_loc_data(w.config)]

after_reload_config(w) == retitle_all(w, entry_ids(w))

handle_core_config_update_always(w, keys) ==
    IF keys = {} THEN w
    ELSE IF keys \cap {"location_name", "language"} = {}
    THEN [store_ha_loc_data(w) EXCEPT !.did.ha_loc_updated = @ + 1]
    ELSE after_reload_config(reload_config(store_ha_loc_data(w)))

handle_core_config_update(w, keys) ==
    IF keys = {} THEN w
    ELSE IF keys \cap {"location_name", "language"} = {}
    THEN IF get_ha_loc_data(w.config) # w.ha_loc_data
         THEN [store_ha_loc_data(w) EXCEPT !.did.ha_loc_updated = @ + 1]
         ELSE w
    ELSE after_reload_config(reload_config(store_ha_loc_data(w)))

\* _entry_by_title: the position of the first entry with the title, 0 when
\* there is none (ValueError).
entry_by_title(w, title) ==
    IF \E i \in 1 .. Len(w.entries) : w.entries[i].title = title
    THEN CHOOSE i \in 1 .. Len(w.entries) :
            /\ w.entries[i].title = title
            /\ \A j \in 1 .. i - 1 : w.entries[j].title # title
    ELSE 0

\* options.update(loc_config): the keys of loc_config replace those of options.
\* A latitude of None and an observer_elevation of <<>> are absent keys.
options_update(options, loc_config) ==
    [options EXCEPT
        !.latitude = IF loc_config.latitude # None THEN loc_config.latitude ELSE @,
        !.obs_elv = IF loc_config.obs_elv # <<>> THEN loc_config.obs_elv ELSE @]

\* update_location of an entry found by its title
update_location_of(w, entry, loc_config) ==
    IF entry.source # SOURCE_USER THEN w
    ELSE IF loc_config.latitude # None /\ entry.options.latitude = None THEN w
    ELSE async_update_entry(w, entry.entry_id, entry.title,
                            options_update(entry.options, loc_config), "service")

\* The service update_location; a ValueError leaves everything as it is.
update_location(w, location, loc_config) ==
    IF entry_by_title(w, location) = 0 THEN w
    ELSE update_location_of(w, w.entries[entry_by_title(w, location)], loc_config)

\* An options flow of the entry finishes with these options: the flow manager
\* calls async_update_entry(entry, options=data).
options_flow_done(w, entry, options) ==
    async_update_entry(w, entry.entry_id, entry.title, options, "options")

\* Home Assistant sets up the entries that are not set up yet.
setup_entries(w) ==
    [w EXCEPT !.entries =
        [i \in 1 .. Len(w.entries) |->
            IF w.entries[i].state = "not_loaded"
            THEN async_setup_entry(w.entries[i]) ELSE w.entries[i]]]

\* async_setup: the YAML config is processed, and then Home Assistant sets
\* up the entries.
async_setup(w) == [setup_entries(process_config(w, w.yaml)) EXCEPT !.started = TRUE]

\* ------------------------------------------------------------- state
VARIABLES
    now,     \* the clock: dt_util.now(), in whole seconds
    ent,     \* the sensor entity of sensor.py
    bin,     \* the binary sensor entity of binary_sensor.py
    call,    \* the latest direct call of a method of Sun2CPSensorEntity
    fires,   \* timers fired so far
    ext,     \* external events so far (forced updates, astral-data updates)
    trace,   \* ghost: the states of the transitions queued so far, in order
    cfg      \* Home Assistant's config entries, the YAML file and core config

vars == <<now, ent, bin, call, fires, ext, trace, cfg>>

\* Bounds of the exploration: timers fired and external events per behaviour.
MaxFires == 5
MaxExt == 1

Kinds == {"elevation", "azimuth", "sun_phase"}

\* The instants at which the entity is added.
StartTimes ==
    {ONE_DAY + 60, ONE_DAY + 6 * 3600 + 1234, ONE_DAY + 12 * 3600 - 400,
     ONE_DAY + 17 * 3600}

\* The instant of the earliest of a set of pending timers.
NextAt(timers) == Least({t.at : t \in timers})

\* The instants at which an external event is explored: now, one second before
\* the next timer is due, and two minutes from now when no timer is due before
\* (six hours from now when no timer is pending at all).
ExtTimes(e) ==
    IF e.updReq > 0 THEN {now}
    ELSE IF e.timers = {} THEN {now, now + 6 * 3600}
    ELSE {t \in {now, NextAt(e.timers) - 1, now + 120} :
            now <= t /\ t <= NextAt(e.timers)}

\* No direct call
NoCall == [fn |-> ""]

\* async_add_entities(entities, True): the entity is added and its first
\* update is requested.
Init ==
    /\ now \in StartTimes
    /\ ent \in {[NewEntity(k, p) EXCEPT !.updReq = 1] : k \in Kinds, p \in ProfileIds}
    /\ bin = NewBinary(DEFAULT_ELEVATION_ABOVE, 1)
    /\ call = NoCall
    /\ fires = 0
    /\ ext = 0
    /\ trace = <<>>
    /\ cfg = NoHass

\* The states of the transitions that e2 has queued and e1 had not.
Queued(e1, e2) ==
    IF e2.updates # <<>> /\ e1.updates = <<>>
    THEN [i \in 1 .. Len(e2.updates) |-> e2.updates[i].state]
    ELSE <<>>

\* The callback of timer t runs: async_schedule_update (elevation and azimuth
\* sensors) or _async_do_update (phase sensors).
run_callback(e, t) ==
    IF t.cb = "async_schedule_update" THEN async_schedule_update(e)
    ELSE async_do_update(e)

\* A pending timer of the entity fires: the earliest one, when the clock
\* reaches it; at most limit timers fire in a behaviour.
FireTimer(limit) ==
    /\ fires < limit
    /\ ent.timers # {}
    /\ \E t \in ent.timers :
        /\ t.at = NextAt(ent.timers)
        /\ ent.updReq = 0 \/ t.at <= now
        /\ now' = Max2(now, t.at)
        /\ ent' = run_callback([ent EXCEPT !.timers = @ \ {t}], t)
    /\ fires' = fires + 1
    /\ UNCHANGED <<bin, call, ext, trace, cfg>>

TimerFire == FireTimer(MaxFires)

\* Sun2Entity.async_update, run for a requested update.
RunUpdate ==
    /\ ent.updReq > 0
    /\ ent' = entity_update([ent EXCEPT !.updReq = @ - 1], now)
    /\ trace' = trace \o Queued(ent, ent')
    /\ UNCHANGED <<now, bin, call, fires, ext, cfg>>

\* A forced update (the homeassistant.update_entity service) at instant t:
\* async_update_ha_state(True) runs Sun2Entity.async_update.
ForcedUpdate ==
    /\ ext < MaxExt
    /\ \E t \in ExtTimes(ent) :
        /\ now' = t
        /\ ent' = entity_update(ent, t)
    /\ ext' = ext + 1
    /\ trace' = trace \o Queued(ent, ent')
    /\ UNCHANGED <<bin, call, fires, cfg>>

\* Sun2EntrySetup._update_entity at instant t: update_astral_data(astral_data)
\* runs, and async_update_ha_state(True) is awaited after it.
AstralDataUpdated ==
    /\ ext < MaxExt
    /\ \E t \in ExtTimes(ent), p \in ProfileIds :
        /\ now' = t
        /\ ent' = [update_astral_data(ent, p) EXCEPT !.updReq = @ + 1]
    /\ ext' = ext + 1
    /\ UNCHANGED <<bin, call, fires, trace, cfg>>

Next == TimerFire \/ RunUpdate \/ ForcedUpdate \/ AstralDataUpdated

Spec == Init /\ [][Next]_vars

\* Weak fairness of RunUpdate, written out.  RunUpdate is enabled exactly
\* when an update is requested (ent.updReq > 0), and its steps are the steps
\* of Next that take a request off: the event loop runs the task that
\* async_schedule_update_ha_state(True) created.
FairUpdates ==
    []<>(ent.updReq = 0) \/ []<><<ent'.updReq < ent.updReq>>_vars

\* The instants at which the entity of SpecLive is added: shortly before
\* solar noon, and in the afternoon.
LiveStartTimes == {ONE_DAY + 12 * 3600 - 400, ONE_DAY + 17 * 3600}

InitLive == Init /\ now \in LiveStartTimes

\* The steps of Spec with fair timers and fair requested updates: a pending
\* timer fires when the clock reaches it, and a requested update runs.  The
\* forced updates and the updates of the astral data come from outside and
\* are not fair.
SpecLive == InitLive /\ [][Next]_vars /\ WF_vars(TimerFire) /\ FairUpdates

\* ------------------------------------------------------------- the binary sensor
\* The thresholds explored: the default, the horizon, one that the sun of
\* profile 2 first reaches two days on, and two that no sun reaches.
BinThresholds == {DEFAULT_ELEVATION_ABOVE, 0, 8150, 85000, -85000}

InitBin ==
    /\ now \in StartTimes
    /\ bin \in {[NewBinary(th, p) EXCEPT !.updReq = 1] :
                  th \in BinThresholds, p \in ProfileIds}
    /\ ent = NewEntity("elevation", 1)
    /\ call = NoCall
    /\ fires = 0
    /\ ext = 0
    /\ trace = <<>>
    /\ cfg = NoHass

\* A pending timer of the binary sensor fires: the earliest one, when the
\* clock reaches it.
BinTimerFire ==
    /\ fires < MaxFires
    /\ bin.timers # {}
    /\ \E t \in bin.timers :
        /\ t.at = NextAt(bin.timers)
        /\ bin.updReq = 0 \/ t.at <= now
        /\ now' = Max2(now, t.at)
        /\ bin' = bin_timer_callback([bin EXCEPT !.timers = @ \ {t}])
    /\ fires' = fires + 1
    /\ UNCHANGED <<ent, call, ext, trace, cfg>>

\* Sun2ElevationSensor.async_update, run for a requested update.
BinRunUpdate ==
    /\ bin.updReq > 0
    /\ bin' = bin_async_update([bin EXCEPT !.updReq = @ - 1], now)
    /\ UNCHANGED <<now, ent, call, fires, ext, trace, cfg>>

\* A forced update of the binary sensor at instant t.
BinForcedUpdate ==
    /\ ext < MaxExt
    /\ \E t \in ExtTimes(bin) :
        /\ now' = t
        /\ bin' = bin_async_update(bin, t)
    /\ ext' = ext + 1
    /\ UNCHANGED <<ent, call, fires, trace, cfg>>

\* SIG_LOC_UPDATED is dispatched at instant t: async_loc_updated runs.
BinLocUpdated ==
    /\ ext < MaxExt
    /\ \E t \in ExtTimes(bin), p \in ProfileIds :
        /\ now' = t
        /\ bin' = async_loc_updated(bin, p)
    /\ ext' = ext + 1
    /\ UNCHANGED <<ent, call, fires, trace, cfg>>

NextBin == BinTimerFire \/ BinRunUpdate \/ BinForcedUpdate \/ BinLocUpdated

SpecBin == InitBin /\ [][NextBin]_vars

\* ------------------------------------------------------------- direct calls
\* The instants at which the methods are called.
FnTimes ==
    {ONE_DAY + 60, ONE_DAY + 8 * 3600, ONE_DAY + 12 * 3600 - 400,
     ONE_DAY + 17 * 3600, 2 * ONE_DAY - 100}

\* The brackets <<t0_dttm, t1_dttm>> explored for the segment cp: its ends, and
\* pairs of samples five minutes apart inside it (the previous sample and now
\* of Sun2ElevationSensor._update).
FnBrackets(cp) ==
    {<<cp.tl_dttm, cp.tr_dttm>>}
    \cup {<<cp.tl_dttm + k, cp.tl_dttm + k + DELTA>> : k \in {3600, 20000}}
    \cup {<<cp.tr_dttm - 900, cp.tr_dttm - 900 + DELTA>>}

\* The target elevations explored for the segment whose elevations range from
\* lo to hi: around both ends of the range, and well inside it.
FnOffsets == {-1000, -21, -20, -6, -5, -4, -1, 0, 1, 4, 5, 6, 20, 21, 1000}

FnTargets(lo, hi) ==
    {lo + d : d \in FnOffsets} \cup {hi + d : d \in FnOffsets}
    \cup {lo + (hi - lo) \div 2, lo + (hi - lo) \div 3}

InitFn ==
    /\ now \in FnTimes
    /\ call = NoCall
    /\ ent = NewEntity("elevation", 1)
    /\ bin = NewBinary(DEFAULT_ELEVATION_ABOVE, 1)
    /\ fires = 0
    /\ ext = 0
    /\ trace = <<>>
    /\ cfg = NoHass

\* self._get_curve_params(now, ...) on an entity at the location of profile p
CallGetCurveParams ==
    /\ call = NoCall
    /\ \E p \in ProfileIds :
        call' = [fn |-> "_get_curve_params", p |-> p, t |-> now,
                 cp |-> get_curve_params(p, now)]
    /\ UNCHANGED <<now, ent, bin, fires, ext, trace, cfg>>

\* The call record of self._get_dttm_at_elev(b[1], b[2], elev, max_err) on an
\* entity whose _cp is cp
DttmAtElevCall(p, cp, b, elev, max_err) ==
    [fn |-> "_get_dttm_at_elev", p |-> p, cp |-> cp, t0_dttm |-> b[1],
     t1_dttm |-> b[2], elev |-> elev, max_err |-> max_err,
     res |-> get_dttm_at_elev_res(p, cp, b[1], b[2], elev, max_err)]

\* The calls of self._get_dttm_at_elev explored on the segment cp
DttmAtElevCalls(p, cp) ==
    {DttmAtElevCall(p, cp, b, elev, max_err) :
        b \in FnBrackets(cp),
        elev \in FnTargets(Min2(cp.tl_elev, cp.tr_elev), Max2(cp.tl_elev, cp.tr_elev)),
        max_err \in {MAX_ERR_PHASE, MAX_ERR_ELEV}}

\* self._get_dttm_at_elev(t0_dttm, t1_dttm, elev, max_err) on an entity at the
\* location of profile p whose _cp is the segment of now
CallGetDttmAtElev ==
    /\ call = NoCall
    /\ \E p \in ProfileIds :
        call' \in DttmAtElevCalls(p, get_curve_params(p, now))
    /\ UNCHANGED <<now, ent, bin, fires, ext, trace, cfg>>

\* The rounded elevations explored: the tenths of a degree from -3 to 3, and
\* the ends of the scale.
RndElevs == {100 * k : k \in -30 .. 30} \cup {-90000, 90000}

\* Sun2ElevationSensor._update: elev, for rnd_elev in a rising or a falling
\* segment
CallElevTarget ==
    /\ call = NoCall
    /\ \E rising \in BOOLEAN, rnd_elev \in RndElevs :
        call' = [fn |-> "elev_target", rising |-> rising, rnd_elev |-> rnd_elev,
                 elev |-> elev_target(rising, rnd_elev)]
    /\ UNCHANGED <<now, ent, bin, fires, ext, trace, cfg>>

\* The elevations explored: each bound of a phase, the elevations a
\* thousandth of a degree and one degree from it, and the bounds of the blue
\* and golden hours, within [-90, 90] degrees.
StateElevs ==
    ({PhaseElevs[i] + d : i \in 1 .. Len(PhaseElevs), d \in {-1000, -1, 0, 1, 1000}}
        \cap (-90000 .. 90000))
    \cup {-4000, 0, 6000}

\* Sun2PhaseSensor._state_at_elev(elev) in a rising or a falling segment; n is
\* the length of the filtered list, and indexing an empty list raises
\* IndexError.
CallStateAtElev ==
    /\ call = NoCall
    /\ \E rising \in BOOLEAN, elev \in StateElevs :
        LET cp == [rising |-> rising]
            n == Len(states_at_elev(SunPhaseData, cp, elev))
        IN  call' = [fn |-> "_state_at_elev", rising |-> rising, elev |-> elev,
                     n |-> n,
                     state |-> IF n = 0 THEN "IndexError"
                               ELSE state_at_elev(SunPhaseData, cp, elev)]
    /\ UNCHANGED <<now, ent, bin, fires, ext, trace, cfg>>

NextFn ==
    CallGetCurveParams \/ CallGetDttmAtElev \/ CallElevTarget \/ CallStateAtElev

SpecFn == InitFn /\ [][NextFn]_vars

\* ------------------------------------------------------------- a day of phases
\* Timers fired in a behaviour of SpecDay: enough for the sun phase sensor to
\* go from one solar midnight to the next.
MaxDayFires == 16

\* How long after a solar midnight the sensor is added.
DayOffsets == {0, 1, 600, 3000, 5000, 9000, 20000, 40000}

InitDay ==
    /\ \E p \in DayProfiles, k \in DayOffsets :
        /\ now = solar_midnight(p, 1) + k
        /\ ent = [NewEntity("sun_phase", p) EXCEPT !.updReq = 1]
    /\ bin = NewBinary(DEFAULT_ELEVATION_ABOVE, 1)
    /\ call = NoCall
    /\ fires = 0
    /\ ext = 0
    /\ trace = <<>>
    /\ cfg = NoHass

DayTimerFire == FireTimer(MaxDayFires)

NextDay == DayTimerFire \/ RunUpdate

SpecDay == InitDay /\ [][NextDay]_vars

\* ------------------------------------------ the deCONZ daylight sensor
\* The profiles of the daylight sensor: the regular ones, the one whose
\* segments do not hold the instant, one whose solar noon is more than twelve
\* hours after its solar midnight, one whose solar noon is less than twelve
\* hours after it, and two whose elevation at solar midnight is within
\* MAX_ERR_PHASE of a threshold (the second with a solar noon ten seconds more
\* than twelve hours after its solar midnight, and no answer from
\* time_at_elevation).
DzProfiles == {1, 2, 3, 5, 6, 7, 8}

\* When the sensor is added, in seconds from a solar midnight.
DzOffsets == {-3000, -150, -1, 0, 100, 200, 600, 20000}

InitDz ==
    /\ \E p \in DzProfiles, k \in DzOffsets :
        /\ now = solar_midnight(p, 1) + k
        /\ ent = [NewEntity("deconz_daylight", p) EXCEPT !.updReq = 1]
    /\ bin = NewBinary(DEFAULT_ELEVATION_ABOVE, 1)
    /\ call = NoCall
    /\ fires = 0
    /\ ext = 0
    /\ trace = <<>>
    /\ cfg = NoHass

NextDz == DayTimerFire \/ RunUpdate

SpecDz == InitDz /\ [][NextDz]_vars

\* ------------------------------------------------- both phase sensors
\* A phase sensor of either type, added around a solar midnight, with its
\* timers, its updates and the updates of the astral data.
PhaseKinds == {"sun_phase", "deconz_daylight"}

PhaseProfiles == {1, 3, 4, 8}

\* When the sensor is added, in seconds from a solar midnight.
PhaseOffsets == {-150, 0, 20000}

InitPhase ==
    /\ \E k \in PhaseKinds, p \in PhaseProfiles, d \in PhaseOffsets :
        /\ now = solar_midnight(p, 1) + d
        /\ ent = [NewEntity(k, p) EXCEPT !.updReq = 1]
    /\ bin = NewBinary(DEFAULT_ELEVATION_ABOVE, 1)
    /\ call = NoCall
    /\ fires = 0
    /\ ext = 0
    /\ trace = <<>>
    /\ cfg = NoHass

NextPhase == TimerFire \/ RunUpdate \/ AstralDataUpdated

SpecPhase == InitPhase /\ [][NextPhase]_vars

\* ------------------------------------------------ a date-based sensor
\* The time zones explored, as offsets from UTC in seconds.
TzOffsets == {-18000, 0, 3600, 19800}

\* async_add_entities(entities, True): async_added_to_hass has run and the
\* first update is requested.
InitDate ==
    /\ now \in StartTimes
    /\ \E tzi \in TzOffsets :
        ent = setup_fixed_updating([NewDateEntity(tzi) EXCEPT !.updReq = 1], now)
    /\ bin = NewBinary(DEFAULT_ELEVATION_ABOVE, 1)
    /\ call = NoCall
    /\ fires = 0
    /\ ext = 0
    /\ trace = <<>>
    /\ cfg = NoHass

\* The midnight timer fires when the clock reaches it.
DateTimerFire ==
    /\ ~ent.removed
    /\ fires < MaxFires
    /\ \E t \in ent.timers :
        /\ t.at = NextAt(ent.timers)
        /\ ent.updReq = 0 \/ t.at <= now
        /\ now' = Max2(now, t.at)
        /\ ent' = async_schedule_update_at_midnight(
                      [ent EXCEPT !.timers = @ \ {t}], t.at)
    /\ fires' = fires + 1
    /\ UNCHANGED <<bin, call, ext, trace, cfg>>

\* Sun2Entity.async_update, run for a requested update.
DateRunUpdate ==
    /\ ~ent.removed
    /\ ent.updReq > 0
    /\ ent' = date_update([ent EXCEPT !.updReq = @ - 1], now)
    /\ UNCHANGED <<now, bin, call, fires, ext, trace, cfg>>

\* Sun2EntrySetup._update_entity at instant t, with astral data of time zone
\* tzi: update_astral_data runs, and async_update_ha_state(True) after it.
DateAstralDataUpdated ==
    /\ ~ent.removed
    /\ ext < MaxExt
    /\ \E t \in ExtTimes(ent) \cup {NextAt(ent.timers)}, tzi \in TzOffsets :
        /\ now <= t
        /\ now' = t
        /\ ent' = [date_update_astral_data(ent, tzi, t) EXCEPT !.updReq = @ + 1]
    /\ ext' = ext + 1
    /\ UNCHANGED <<bin, call, fires, trace, cfg>>

\* The entity is removed: the callback registered with async_on_remove runs.
DateRemoved ==
    /\ ~ent.removed
    /\ ext < MaxExt
    /\ ent' = [base_cancel_update(ent) EXCEPT !.removed = TRUE]
    /\ ext' = ext + 1
    /\ UNCHANGED <<now, bin, call, fires, trace, cfg>>

NextDate ==
    DateTimerFire \/ DateRunUpdate \/ DateAstralDataUpdated \/ DateRemoved

SpecDate == InitDate /\ [][NextDate]_vars

\* ------------------------------- two updates of the elevation sensor
\* The elevations at which the updates compared are made: every eighth
\* multiple of ELEV_STEP, and the elevations 0.04 below and above it, which
\* round to it.
WakeLevels == {8 * ELEV_STEP * k + d : k \in -7 .. 5, d \in {-40, 0, 40}}

\* The instants of the segment cp of profile p at which an update is
\* compared: those at which the curve reaches a level of WakeLevels, with the
\* sample before it in the segment.
WakeTimes(p, cp) ==
    {t \in {FirstReached(p, cp.tl_dttm, cp.tr_dttm, l, cp.rising) : l \in WakeLevels} :
        cp.tl_dttm <= t - DELTA /\ t < cp.tr_dttm}

\* The entity before an update at t: its segment is cp and its previous
\* update was DELTA earlier.
Sampled(p, cp, t) ==
    [NewEntity("elevation", p) EXCEPT !.cp = <<cp>>, !.prv_dttm = t - DELTA,
                                      !.native_value = <<Round1(solar_elevation(p, t - DELTA))>>]

\* Sun2ElevationSensor._update at t on the entity e: what the update saw and
\* what it armed
WakeOf(e, t) ==
    [t |-> t, cur_elev |-> solar_elevation(e.astral, t),
     rise |-> Abs(solar_elevation(e.astral, t) - solar_elevation(e.astral, e.prv_dttm)),
     rnd_elev |-> Round1(solar_elevation(e.astral, t)),
     found |-> elevation_extrapolate(
                   [e EXCEPT !.native_value = <<Round1(solar_elevation(e.astral, t))>>], t) # None,
     nxt_dttm |-> elevation_update(e, t).extra[1].next_change,
     nxt_elev |-> solar_elevation(e.astral, elevation_update(e, t).extra[1].next_change)]

InitWake ==
    /\ now \in FnTimes
    /\ call = NoCall
    /\ ent = NewEntity("elevation", 1)
    /\ bin = NewBinary(DEFAULT_ELEVATION_ABOVE, 1)
    /\ fires = 0
    /\ ext = 0
    /\ trace = <<>>
    /\ cfg = NoHass

\* Two updates on the segment of now, on entities at the location of profile p
UpdatePair ==
    /\ call = NoCall
    /\ \E p \in ProfileIds :
        \E ta \in WakeTimes(p, get_curve_params(p, now)),
           tb \in WakeTimes(p, get_curve_params(p, now)) :
            call' = [fn |-> "_update", p |-> p, cp |-> get_curve_params(p, now),
                     a |-> WakeOf(Sampled(p, get_curve_params(p, now), ta), ta),
                     b |-> WakeOf(Sampled(p, get_curve_params(p, now), tb), tb)]
    /\ UNCHANGED <<now, ent, bin, fires, ext, trace, cfg>>

NextWake == UpdatePair

SpecWake == InitWake /\ [][NextWake]_vars

\* ------------------------------------- the loop of _get_dttm_at_elev
\* The passes of the loop explored one by one (the loop has no bound of its
\* own).
MaxPasses == 400

\* The tolerances explored: those of the sensors, and one tighter than the
\* change of the elevation in a second.
RootTolerances == {1, MAX_ERR_PHASE, MAX_ERR_ELEV}

\* The brackets explored at instant t of the segment cp: the ends of the
\* segment, the previous sample and t, t twice (two updates in one second),
\* and two instants a second or a minute apart.
RootBrackets(cp, t) ==
    {<<cp.tl_dttm, cp.tr_dttm>>, <<t - DELTA, t>>, <<t, t>>, <<t, t + 1>>,
     <<t, t + 60>>, <<cp.tl_dttm, cp.tl_dttm + 60>>}

\* The targets explored for the bracket b: the elevations at its ends, and
\* elevations near and far from them.
RootTargets(p, b) ==
    {solar_elevation(p, b[k]) + d : k \in {1, 2}, d \in {-ELEV_STEP, -3, 0, 2, ELEV_STEP}}

\* self._get_dttm_at_elev(b[1], b[2], elev, max_err) on an entity at the
\* location of profile p whose _cp is cp: the variables before the loop
RootCall(p, cp, b, elev, max_err) ==
    [fn |-> "_get_dttm_at_elev", p |-> p, cp |-> cp, b |-> b, elev |-> elev,
     max_err |-> max_err,
     s |-> RootState(b[1], solar_elevation(p, b[1]), b[2], solar_elevation(p, b[2]),
                     0, "", None)]

InitRoot ==
    /\ now \in FnTimes
    /\ \E p \in ProfileIds :
        \E b \in RootBrackets(get_curve_params(p, now), now) :
            \E elev \in RootTargets(p, b), max_err \in RootTolerances :
                call = RootCall(p, get_curve_params(p, now), b, elev, max_err)
    /\ ent = NewEntity("elevation", 1)
    /\ bin = NewBinary(DEFAULT_ELEVATION_ABOVE, 1)
    /\ fires = 0
    /\ ext = 0
    /\ trace = <<>>
    /\ cfg = NoHass

\* One pass of the loop of _get_dttm_at_elev
RootPass ==
    /\ call.s.why = ""
    /\ call.s.est < MaxPasses
    /\ call' = [call EXCEPT !.s = dttm_at_elev_pass(call.p, call.cp, call.s,
                                                    call.elev, call.max_err)]
    /\ UNCHANGED <<now, ent, bin, fires, ext, trace, cfg>>

NextRoot == RootPass

SpecRoot == InitRoot /\ [][NextRoot]_vars

\* ------------------------------------------------------------- config entries
\* Operations on the configuration in a behaviour of SpecCfg
MaxCfgOps == 3

Options(latitude, sensors) ==
    [latitude |-> latitude, sensors |-> sensors, obs_elv |-> <<>>,
     elevation |-> 0]

Conf(unique_id, location, options) ==
    [unique_id |-> unique_id, location |-> location, options |-> options]

\* The contents of the YAML file explored; location names are unique.
Yamls ==
    {<<>>,
     <<Conf("a", NoLocation, Options(None, 0))>>,
     <<Conf("a", NoLocation, Options(None, 1))>>,
     <<Conf("b", "Work", Options(50, 0))>>,
     <<Conf("a", NoLocation, Options(None, 0)), Conf("b", "Work", Options(50, 0))>>,
     <<Conf("a", NoLocation, [Options(None, 0) EXCEPT !.elevation = 100])>>,
     <<Conf("a", NoLocation, [Options(None, 0) EXCEPT !.obs_elv = <<<<100>>, <<100>>>>])>>}

\* An entry stored by an earlier run of Home Assistant
StoredEntry(id, source, unique_id, title, options, unloads) ==
    [entry_id |-> id, source |-> source, unique_id |-> unique_id,
     title |-> title, data |-> <<>>, options |-> options,
     state |-> "not_loaded", unloads |-> unloads, config_data |-> NoData]

\* The entries stored when Home Assistant starts
StoredEntries ==
    {<<>>,
     <<StoredEntry(1, SOURCE_IMPORT, "a", "Home", Options(None, 0), TRUE)>>,
     <<StoredEntry(1, SOURCE_IMPORT, "a", "Home", Options(None, 0), FALSE)>>,
     <<StoredEntry(1, SOURCE_IMPORT, "a", "Home", Options(None, 0), TRUE),
       StoredEntry(2, SOURCE_USER, NoUniqueId, "Home", Options(None, 0), TRUE)>>,
     <<StoredEntry(1, SOURCE_IMPORT, "c", "Cabin", Options(60, 0), TRUE),
       StoredEntry(2, SOURCE_USER, NoUniqueId, "Office", Options(50, 0), FALSE)>>,
     <<StoredEntry(1, SOURCE_USER, NoUniqueId, "Home", Options(None, 1), TRUE),
       StoredEntry(2, SOURCE_USER, NoUniqueId, "Office", Options(50, 0), TRUE)>>,
     <<StoredEntry(1, SOURCE_IMPORT, "a", "Home", Options(None, 0), FALSE),
       StoredEntry(2, SOURCE_IMPORT, "c", "Cabin", Options(60, 0), TRUE),
       StoredEntry(3, SOURCE_USER, NoUniqueId, "Home", Options(None, 0), FALSE),
       StoredEntry(4, SOURCE_USER, NoUniqueId, "Office", Options(50, 0), TRUE)>>}

\* Home Assistant's core config: the location names and latitudes explored
LocationNames == {"Home", "Casa"}
Latitudes == {10, 20}
EventKeys == {"latitude", "location_name", "language"}

InitCfg ==
    /\ now = ONE_DAY
    /\ ent = NewEntity("elevation", 1)
    /\ bin = NewBinary(DEFAULT_ELEVATION_ABOVE, 1)
    /\ call = NoCall
    /\ fires = 0
    /\ ext = 0
    /\ trace = <<>>
    /\ \E entries \in StoredEntries, yaml \in Yamls :
        cfg = NewHass(entries, yaml, [location_name |-> "Home", latitude |-> 10])

\* The operation op starts: what the previous one did is forgotten.
Begin(w, op) ==
    [w EXCEPT !.op = op, !.ops = @ + 1, !.event = {}, !.did = NoEffects]

\* Home Assistant starts and sets the integration up.
Setup ==
    /\ ~cfg.started
    /\ cfg' = async_setup(Begin(cfg, "async_setup"))
    /\ UNCHANGED <<now, ent, bin, call, fires, ext, trace>>

\* The user edits the YAML file.
YamlEdited ==
    /\ cfg.started /\ cfg.ops < MaxCfgOps
    /\ \E yaml \in Yamls \ {cfg.yaml} :
        cfg' = [Begin(cfg, "edit") EXCEPT !.yaml = yaml]
    /\ UNCHANGED <<now, ent, bin, call, fires, ext, trace>>

\* The reload service of the integration is called.
ReloadService ==
    /\ cfg.started /\ cfg.ops < MaxCfgOps
    /\ cfg' = reload_config(Begin(cfg, "reload_config"))
    /\ UNCHANGED <<now, ent, bin, call, fires, ext, trace>>

\* Home Assistant's core config is updated: the attributes named by keys are
\* set, and EVENT_CORE_CONFIG_UPDATE is fired with them as its data.
CoreConfigUpdate ==
    /\ cfg.started /\ cfg.ops < MaxCfgOps
    /\ \E keys \in SUBSET EventKeys, name \in LocationNames, lat \in Latitudes :
        /\ "location_name" \in keys \/ name = cfg.config.location_name
        /\ "latitude" \in keys \/ lat = cfg.config.latitude
        /\ cfg' = handle_core_config_update(
                    [Begin(cfg, "core_config_update") EXCEPT
                        !.config = [location_name |-> name, latitude |-> lat],
                        !.event = keys],
                    keys)
    /\ UNCHANGED <<now, ent, bin, call, fires, ext, trace>>

NextCfg == Setup \/ YamlEdited \/ ReloadService \/ CoreConfigUpdate

SpecCfg == InitCfg /\ [][NextCfg]_vars

\* ------------------------------------------------------------- SpecUpd
\* Updates of the entries of a running Home Assistant: by the service
\* update_location, by an options flow, by an update of the core config.
\* The observer elevations explored, as stored in the options.
ObsElvOptions ==
    {<<<<0>>, <<0>>>>, <<<<100>>, <<100>>>>, <<<<5, 200>>, <<100>>>>,
     <<<<100>>, <<-5, 200>>>>}

InitUpd ==
    /\ now = ONE_DAY
    /\ ent = NewEntity("elevation", 1)
    /\ bin = NewBinary(DEFAULT_ELEVATION_ABOVE, 1)
    /\ call = NoCall
    /\ fires = 0
    /\ ext = 0
    /\ trace = <<>>
    /\ \E entries \in StoredEntries, yaml \in {<<>>, <<Conf("b", "Work", Options(50, 0))>>} :
        cfg = async_setup(Begin(
                NewHass(entries, yaml, [location_name |-> "Home", latitude |-> 10]),
                "async_setup"))

\* The service sun2.update_location is called.
UpdateLocationService ==
    /\ cfg.ops < MaxCfgOps
    /\ \E location \in {"Home", "Office", "Work"}, latitude \in {None, 50, 60},
          obs_elv \in {<<>>} \cup ObsElvOptions :
        cfg' = update_location(Begin(cfg, "update_location"), location,
                               [latitude |-> latitude, obs_elv |-> obs_elv])
    /\ UNCHANGED <<now, ent, bin, call, fires, ext, trace>>

\* The user finishes an options flow of an entry that supports one
\* (async_supports_options_flow); only an entry with a location of its own
\* is offered the location menu.
OptionsFlowDone ==
    /\ cfg.ops < MaxCfgOps
    /\ \E i \in 1 .. Len(cfg.entries), latitude \in {None, 50, 60},
          obs_elv \in {<<>>} \cup ObsElvOptions, sensors \in {0, 1} :
        /\ cfg.entries[i].source # SOURCE_IMPORT
        /\ (latitude = None) = (cfg.entries[i].options.latitude = None)
        /\ cfg.entries[i].options.latitude = None => obs_elv = cfg.entries[i].options.obs_elv
        /\ cfg' = options_flow_done(
                    Begin(cfg, "options_flow"), cfg.entries[i],
                    [cfg.entries[i].options EXCEPT !.latitude = latitude,
                                                   !.obs_elv = obs_elv,
                                                   !.sensors = sensors])
    /\ UNCHANGED <<now, ent, bin, call, fires, ext, trace>>

\* ------------------------------------------------------------- SpecUser
\* User config flows on a running Home Assistant, one at a time.
FlowNames == {"Home", "Office", "Cabin"}

InitUser ==
    /\ now = ONE_DAY
    /\ ent = NewEntity("elevation", 1)
    /\ bin = NewBinary(DEFAULT_ELEVATION_ABOVE, 1)
    /\ call = NoCall
    /\ fires = 0
    /\ ext = 0
    /\ trace = <<>>
    /\ \E entries \in {<<>>,
                        <<StoredEntry(1, SOURCE_USER, NoUniqueId, "Home", Options(None, 0), TRUE)>>,
                        <<StoredEntry(1, SOURCE_USER, NoUniqueId, "Office", Options(50, 0), TRUE)>>} :
        cfg = async_setup(Begin(
                NewHass(entries, <<>>, [location_name |-> "Home", latitude |-> 10]),
                "async_setup"))

\* The user starts a config flow.
UserFlowStarts ==
    /\ cfg.uflow.step = "" /\ cfg.ops < MaxCfgOps
    /\ cfg' = async_step_user(Begin(cfg, "user_flow"))
    /\ UNCHANGED <<now, ent, bin, call, fires, ext, trace>>

\* The user answers the form of the step the flow is at.
UserFlowStep ==
    /\ \/ /\ cfg.uflow.step = "use_home"
          /\ \E use_home \in BOOLEAN : cfg' = async_step_use_home(cfg, use_home)
       \/ /\ cfg.uflow.step = "location_name"
          /\ \E name \in FlowNames : cfg' = async_step_location_name(cfg, name)
       \/ /\ cfg.uflow.step = "location"
          /\ \E latitude \in {50, 60} : cfg' = async_step_location(cfg, latitude)
       \/ /\ cfg.uflow.step = "observer_elevation"
          /\ \E obs_elv \in {<<<<0>>, <<0>>>>, <<<<5, 200>>, <<100>>>>} :
                cfg' = async_step_obs_elv_values(cfg, obs_elv)
       \/ /\ cfg.uflow.step = "entities_menu" /\ cfg.uflow.options.sensors = 0
          /\ cfg' = async_step_add_entities(cfg)
    /\ UNCHANGED <<now, ent, bin, call, fires, ext, trace>>

\* The user picks done in the entities menu.
UserFlowDone ==
    /\ cfg.uflow.step = "entities_menu"
    /\ cfg' = async_step_done(cfg)
    /\ UNCHANGED <<now, ent, bin, call, fires, ext, trace>>

NextUser == UserFlowStarts \/ UserFlowStep \/ UserFlowDone

SpecUser == InitUser /\ [][NextUser]_vars

NextUpd == UpdateLocationService \/ OptionsFlowDone \/ CoreConfigUpdate

SpecUpd == InitUpd /\ [][NextUpd]_vars

\* ------------------------------------------------------------- properties
\* No sun of profile p reaches the threshold within the look-ahead window that
\* starts at the date of instant t (nor on the days around it).
NeverReached(p, threshold, t) ==
    \/ \A d \in DateOf(t) - 2 .. DateOf(t) + LOOK_AHEAD_DAYS + 2 : threshold > HiElev(p, d)
    \/ \A d \in DateOf(t) - 2 .. DateOf(t) + LOOK_AHEAD_DAYS + 2 : threshold < LoElev(p, d)

\* C1: when an update of the binary sensor at instant t has set the state and
\* computed a next change n (none is no instant), then t < n and the state
\* evaluated at n, elevation(n) > threshold, is the opposite of the state set.
C1_NextChangeFlips ==
    (bin.upd_at # None /\ bin.raised = "" /\ bin.next_change # None) =>
        /\ bin.state = <<solar_elevation(bin.upd_info, bin.upd_at) > bin.threshold>>
        /\ bin.upd_at < bin.next_change
        /\ (solar_elevation(bin.upd_info, bin.next_change) > bin.threshold)
               # bin.state[1]

\* An update of the binary sensor has computed a next change, more than a
\* minute ahead, for a sensor that is off.
C1_Witness ==
    /\ bin.upd_at # None /\ bin.raised = "" /\ bin.state = <<FALSE>>
    /\ bin.next_change # None /\ bin.next_change > bin.upd_at + 60

\* C2: when no segment within the look-ahead window crosses the threshold of
\* the binary sensor, every update completes without raising and leaves the
\* state elevation(now) > threshold, no next change, no timer armed and
\* exactly one error logged for that update.
C2_NeverReachedSettles ==
    (bin.upd_at # None /\ NeverReached(bin.upd_info, bin.threshold, bin.upd_at)) =>
        /\ bin.raised = ""
        /\ bin.state = <<solar_elevation(bin.upd_info, bin.upd_at) > bin.threshold>>
        /\ bin.next_change = None
        /\ bin.timers = {}
        /\ bin.log = <<"error">>

\* The two ends of the segment cp are consecutive extrema of profile p: a
\* solar midnight and the solar noon after it, or a solar noon and the solar
\* midnight after it.
ConsecutiveExtrema(p, cp) ==
    \E d \in DateOf(cp.tl_dttm) - 2 .. DateOf(cp.tl_dttm) + 2 :
        \/ cp.tl_dttm = solar_midnight(p, d) /\ cp.tr_dttm = solar_noon(p, d)
        \/ cp.tl_dttm = solar_noon(p, d) /\ cp.tr_dttm = solar_midnight(p, d + 1)

\* C3: _get_curve_params(t) returns a segment with tl_dttm <= t < tr_dttm
\* whose ends are two consecutive extrema, and rising is true exactly when
\* tr_elev > tl_elev (in every profile solar_midnight(d) < solar_noon(d) <
\* solar_midnight(d + 1)).
C3_SegmentHoldsInstant ==
    call.fn = "_get_curve_params" =>
        /\ call.cp.tl_dttm <= call.t /\ call.t < call.cp.tr_dttm
        /\ ConsecutiveExtrema(call.p, call.cp)
        /\ call.cp.rising = (call.cp.tr_elev > call.cp.tl_elev)

\* The least and the greatest elevation of the segment cp
SegLo(cp) == Min2(cp.tl_elev, cp.tr_elev)

SegHi(cp) == Max2(cp.tl_elev, cp.tr_elev)

\* C4: for a target strictly between tl_elev and tr_elev, _get_dttm_at_elev
\* called with the ends of the segment as the bracket returns an instant (not
\* None) at which the elevation is within max_err of the target, and which
\* lies in [tl_dttm, tr_dttm].  (The profiles are monotonic on each segment.)
C4_RootFound ==
    (/\ call.fn = "_get_dttm_at_elev"
     /\ call.t0_dttm = call.cp.tl_dttm /\ call.t1_dttm = call.cp.tr_dttm
     /\ SegLo(call.cp) < call.elev /\ call.elev < SegHi(call.cp)) =>
        /\ call.res.dttm # None
        /\ Abs(solar_elevation(call.p, call.res.dttm) - call.elev) <= call.max_err
        /\ call.cp.tl_dttm <= call.res.dttm /\ call.res.dttm <= call.cp.tr_dttm

\* The root finder was called with the ends of the segment for a target five
\* thousandths of a degree inside the range, and took more than 20 estimates.
C4_Witness ==
    /\ call.fn = "_get_dttm_at_elev"
    /\ call.t0_dttm = call.cp.tl_dttm /\ call.t1_dttm = call.cp.tr_dttm
    /\ call.elev = SegLo(call.cp) + MAX_ERR_PHASE
    /\ call.res.dttm # None /\ call.res.n > 20

\* C5 as stated: for a target outside the closed range of elevations of the
\* segment, _get_dttm_at_elev returns None, whatever the bracket inside the
\* segment.
C5_OutsideIsNone ==
    (/\ call.fn = "_get_dttm_at_elev"
     /\ call.elev < SegLo(call.cp) \/ call.elev > SegHi(call.cp)) =>
        call.res.dttm = None

\* C5: for a target outside the closed range of elevations of the segment by
\* max_err or more, _get_dttm_at_elev returns None (and its loop ends),
\* whatever the bracket inside the segment.
C5_FarOutsideIsNone ==
    (/\ call.fn = "_get_dttm_at_elev"
     /\ \/ call.elev <= SegLo(call.cp) - call.max_err
        \/ call.elev >= SegHi(call.cp) + call.max_err) =>
        /\ call.res.dttm = None
        /\ call.res.why # "fuel"

\* The root finder was called with two samples five minutes apart for a target
\* max_err or more beyond the range, and returned None after two estimates or
\* more.
C5_Witness ==
    /\ call.fn = "_get_dttm_at_elev"
    /\ call.t1_dttm = call.t0_dttm + DELTA
    /\ call.elev >= SegHi(call.cp) + call.max_err
    /\ call.res.dttm = None /\ call.res.n >= 2

\* C6: an elevation or azimuth sensor, and the binary sensor, has at most one
\* wake-up timer pending at any time.
C6_OneTimerPending ==
    /\ ent.kind \in {"elevation", "azimuth"} => Cardinality(ent.timers) <= 1
    /\ Cardinality(bin.timers) <= 1

\* The timers pending for the phase sensor are those of the entries of its
\* queue, every entry was computed from the astral data in use, and no
\* transition computed from earlier astral data has been applied.
QueueIsCurrent(e) ==
    /\ {t.id : t \in e.timers} = {e.updates[i].remove : i \in 1 .. Len(e.updates)}
    /\ \A i \in 1 .. Len(e.updates) : e.updates[i].gen = e.gen
    /\ ~e.stale

\* update_astral_data leaves no timer, no queue and no segment.
Invalidated(e1, e2) ==
    e2.gen # e1.gen => e2.timers = {} /\ e2.updates = <<>> /\ e2.cp = <<>>

ThresholdsAhead(d, cp, cur_elev) ==
    SelectSeq(IF cp.rising THEN d.rising_elevs ELSE d.falling_elevs,
              LAMBDA x : elev_ahead(cp, cur_elev, x))

\* Entry i of the queue is the transition at threshold elev.
TransitionAt(e, i, elev) ==
    /\ e.updates[i].state = state_at_elev(PhaseDataOf(e.kind), e.cp[1], elev)
    /\ Abs(solar_elevation(e.astral, e.updates[i].when) - elev) <= MAX_ERR_PHASE

\* The queue of e holds one transition per threshold of ahead, in that order,
\* and then the stateless marker at tr_dttm; its instants are in non-decreasing
\* order and none is later than tr_dttm.
QueueMatches(e, ahead) ==
    /\ Len(e.updates) = Len(ahead) + 1
    /\ \A i \in 1 .. Len(ahead) : TransitionAt(e, i, ahead[i])
    /\ Last(e.updates).state = "None"
    /\ Last(e.updates).when = e.cp[1].tr_dttm
    /\ \A i \in 1 .. Len(e.updates) - 1 : e.updates[i].when <= e.updates[i + 1].when
    /\ \A i \in 1 .. Len(e.updates) : e.updates[i].when <= e.cp[1].tr_dttm

\* The queue that e holds was built at instant t as the claim describes, but
\* for the instants being later than t.
QueueBuilt(e, t) ==
    QueueMatches(e, ThresholdsAhead(PhaseDataOf(e.kind), e.cp[1],
                                    solar_elevation(e.astral, t)))

\* Every instant of the queue is later than t.
QueueLater(e, t) == \A i \in 1 .. Len(e.updates) : t < e.updates[i].when

\* This step builds the queue of the phase sensor, and every root-find of it
\* succeeds.
BuildsQueue ==
    /\ ent.kind = "sun_phase"
    /\ ent.updates = <<>> /\ ent'.updates # <<>>
    /\ ent'.errors = ent.errors

PhaseRank(state) ==
    CHOOSE i \in 1 .. Len(PhaseStates) : PhaseStates[i] = state

\* The states of the queued transitions, in order, without the markers.
Transitions(tr) == SelectSeq(tr, LAMBDA x : x # "None")

\* The number of the queue that entry i of the trace belongs to.
QueueOf(tr, i) == Cardinality({k \in 1 .. i - 1 : tr[k] = "None"})

\* Entries i and i + 1 of the trace are transitions, the second of a higher
\* (Up) or lower (Down) phase than the first.
Up(tr, i) ==
    /\ tr[i] # "None" /\ tr[i + 1] # "None"
    /\ PhaseRank(tr[i + 1]) > PhaseRank(tr[i])

Down(tr, i) ==
    /\ tr[i] # "None" /\ tr[i + 1] # "None"
    /\ PhaseRank(tr[i + 1]) < PhaseRank(tr[i])

\* The phases of s go up or down the configured list one phase at a time.
StrictSteps(s) ==
    \A i \in 1 .. Len(s) - 1 : Abs(PhaseRank(s[i + 1]) - PhaseRank(s[i])) = 1

\* The phases of s stay or go to the next phase up or down: none is skipped.
NoPhaseSkipped(s) ==
    \A i \in 1 .. Len(s) - 1 : Abs(PhaseRank(s[i + 1]) - PhaseRank(s[i])) <= 1

\* Within one queue the phases only go up, or only go down.
OneWayQueues(tr) ==
    \A i, j \in 1 .. Len(tr) - 1 :
        QueueOf(tr, i) = QueueOf(tr, j) => ~(Up(tr, i) /\ Down(tr, j))

NextChangeOf(e) == e.extra[1].next_change

\* The entity after its astral data are updated with the values it has.
Reinit(e) == update_astral_data(e, e.astral)

SameState(a, b) == a.native_value = b.native_value

SameNextChange(a, b) == NextChangeOf(a) = NextChangeOf(b)

\* The next change of an elevation sensor that has no previous sample: the
\* end of the segment when it is less than _DELTA away, now + _DELTA if not.
FirstNextChange(p, t) == elevation_nxt_dttm(get_curve_params(p, t), t, None)

\* C10 as stated: for an elevation or phase sensor in any reachable state, an
\* update at now after an update of the astral data with the same values gives
\* the same state and the same next change as the update at now alone.
C10_ReinitChangesNothing ==
    ent.kind \in {"elevation", "sun_phase"} =>
        /\ SameState(entity_update(ent, now), entity_update(Reinit(ent), now))
        /\ SameNextChange(entity_update(ent, now), entity_update(Reinit(ent), now))

\* What holds of the update of e at t (plain) and of the one after an update
\* of the astral data with the same values (renewed).
ReinitKeeps(e, plain, renewed, t) ==
    /\ e.kind = "elevation" =>
        /\ SameState(plain, renewed)
        /\ NextChangeOf(renewed) = FirstNextChange(e.astral, t)
    /\ (e.kind = "sun_phase" /\ e.updates = <<>>) =>
        /\ SameState(plain, renewed)
        /\ SameNextChange(plain, renewed)

\* C10: for an elevation sensor the two updates give the same state, and the
\* next change after the update of the astral data is the one of a sensor
\* with no previous sample; for a phase sensor whose queue is empty the two
\* updates give the same state and the same next change.
C10_ReinitKeepsState ==
    ReinitKeeps(ent, entity_update(ent, now), entity_update(Reinit(ent), now), now)

\* An elevation sensor with a previous sample, a timer pending and a state
\* that is out of date: the update at now changes the state, and its
\* extrapolated next change is not the one found after an update of the
\* astral data.
C10_Witness ==
    /\ ent.kind = "elevation" /\ ent.prv_dttm # None /\ ent.prv_dttm < now
    /\ ent.cp # <<>> /\ ent.timers # {}
    /\ ~SameState(ent, entity_update(ent, now))
    /\ ~SameNextChange(entity_update(ent, now), entity_update(Reinit(ent), now))

\* C11: no update of the binary sensor ends in an unhandled error: nothing,
\* and so not the RuntimeError "Couldn't find next update time" of
\* _find_nxt_dttm either, is raised out of async_update.
C11_NoUnhandledError == bin.raised = ""

\* This step is an update of the binary sensor that found a next change: it
\* armed a timer.
BinArms == bin'.nextId # bin.nextId

\* What an update at instant t that found a next change leaves in b, whose
\* timer got the id id: the state, the next change, the timer at it, and a
\* warning exactly when the next change is more than a day after t.
BinArmed(b, id, t) ==
    /\ b.raised = ""
    /\ b.state = <<solar_elevation(b.info, t) > b.threshold>>
    /\ b.next_change # None
    /\ [id |-> id, at |-> b.next_change, cb |-> "async_update"] \in b.timers
    /\ b.unsub_update = id
    /\ b.log = IF b.next_change - t > ONE_DAY THEN <<"warning">> ELSE <<>>

\* C12: an update of the binary sensor whose next change n is more than one
\* day after now logs a warning, and sets the state, next_change = n and a
\* timer at n as an update whose next change is within one day does (which
\* logs nothing).
C12_FarChangeWarns == [][BinArms => BinArmed(bin', bin.nextId, now')]_vars

\* An update has found a next change more than one day ahead, logged the
\* warning and armed the timer at it.
C12_Witness ==
    /\ bin.raised = "" /\ bin.upd_at # None
    /\ bin.next_change # None /\ bin.next_change - bin.upd_at > ONE_DAY
    /\ bin.log = <<"warning">>
    /\ \E t \in bin.timers : t.at = bin.next_change /\ t.id = bin.unsub_update

\* The elements of a sequence
Range(seq) == {seq[i] : i \in 1 .. Len(seq)}

\* No element occurs twice in the sequence.
NoRepeat(seq) == \A i, j \in 1 .. Len(seq) : seq[i] = seq[j] => i = j

\* The step is a run of _process_config alone: at set up, or by the reload
\* service.
ProcessesConfig == cfg'.op \in {"async_setup", "reload_config"}

\* The unique_ids of the location configs of YAML
YamlUniqueIds(w) == {c.unique_id : c \in Range(w.yaml)}

\* The entries that _process_config has to remove
Stale(w) ==
    {e.entry_id : e \in {x \in Range(w.entries) :
        x.source = SOURCE_IMPORT /\ x.unique_id \notin YamlUniqueIds(w)}}

\* C13: _process_config removes exactly the imported entries whose unique_id
\* is absent from the YAML location list, each once, and never an entry of
\* another source; it starts exactly one import flow per location config of
\* YAML; with no YAML config and no imported entry it removes, updates,
\* reloads and initiates nothing.
C13_ProcessConfig ==
    [][ProcessesConfig =>
        /\ Range(cfg'.did.removed) = Stale(cfg)
        /\ NoRepeat(cfg'.did.removed)
        /\ \A e \in Range(cfg.entries) :
              e.source # SOURCE_IMPORT =>
                \E x \in Range(cfg'.entries) : x.entry_id = e.entry_id
        /\ cfg'.did.flows = cfg.yaml
        /\ (cfg.yaml = <<>> /\ \A e \in Range(cfg.entries) : e.source # SOURCE_IMPORT)
              => /\ cfg'.did.removed = <<>> /\ cfg'.did.updated = <<>>
                 /\ cfg'.did.reloaded = <<>> /\ cfg'.did.flows = <<>>]_vars

\* An entry no longer in YAML has been removed, a flow started for each of two
\* location configs, and an entry of the user is still there.
C13_Witness ==
    /\ cfg.op = "async_setup"
    /\ cfg.did.removed # <<>>
    /\ Len(cfg.did.flows) = 2
    /\ \E e \in Range(cfg.entries) : e.source = SOURCE_USER

\* The entries with this unique_id
WithUniqueId(w, unique_id) == {e \in Range(w.entries) : e.unique_id = unique_id}

\* The title that the import of conf gives an entry
TitleOf(w, conf) ==
    IF conf.location = NoLocation THEN w.config.location_name ELSE conf.location

\* How many times the import flow called async_reload for the entry
FlowReloads(w, id) ==
    Cardinality({k \in 1 .. Len(w.did.reloaded) :
                   w.did.reloaded[k] = [entry_id |-> id, by |-> "flow"]})

\* The import of conf left one entry with its unique_id, which has its
\* title and options.
Imported(w, conf, id) ==
    \E e \in WithUniqueId(w, conf.unique_id) :
        /\ WithUniqueId(w, conf.unique_id) = {e}
        /\ e.entry_id = id
        /\ e.source = SOURCE_IMPORT /\ e.data = <<>>
        /\ e.title = TitleOf(w, conf) /\ e.options = conf.options

\* The import of conf did not change the entry.
Unchanged(w, conf, e) == e.title = TitleOf(w, conf) /\ e.options = conf.options

\* The flow that imported conf, whose result is r, when e is the entry that
\* had its unique_id: the entry is updated in place and the flow aborted; the
\* flow reloads the entry once if reloads, and else not at all.
ImportedOld(w, conf, r, e, reloads) ==
    /\ r.type = "abort: already_configured"
    /\ Imported(w, conf, e.entry_id)
    /\ FlowReloads(w, e.entry_id) = IF reloads THEN 1 ELSE 0

\* The same when no entry had its unique_id: one entry is created.
ImportedNew(w1, w2, conf, r) ==
    /\ r.type = "create_entry"
    /\ Imported(w2, conf, r.entry_id)
    /\ \A e \in Range(w1.entries) : e.entry_id # r.entry_id

\* C14 as stated: the flow reloads the existing entry exactly when the update
\* changed nothing.
C14_ReloadIffUnchanged ==
    [][\A i \in 1 .. Len(cfg'.did.flows) :
        \A e \in WithUniqueId(cfg, cfg'.did.flows[i].unique_id) :
            ImportedOld(cfg', cfg'.did.flows[i], cfg'.did.results[i], e,
                        Unchanged(cfg', cfg'.did.flows[i], e))]_vars

\* C14: an import flow whose unique_id is that of an existing entry creates
\* no second entry: it updates the entry in place and aborts with reason
\* already_configured, and the flow itself reloads the entry exactly when the
\* update changed nothing and the state of the entry is recoverable; an import
\* with a new unique_id creates one entry with source import, empty data, the
\* remaining config as options and the location (or else the location name
\* of Home Assistant) as title.
C14_ImportFlow ==
    [][/\ Len(cfg'.did.results) = Len(cfg'.did.flows)
       /\ \A i \in 1 .. Len(cfg'.did.flows) :
            IF WithUniqueId(cfg, cfg'.did.flows[i].unique_id) = {}
            THEN ImportedNew(cfg, cfg', cfg'.did.flows[i], cfg'.did.results[i])
            ELSE \A e \in WithUniqueId(cfg, cfg'.did.flows[i].unique_id) :
                    ImportedOld(cfg', cfg'.did.flows[i], cfg'.did.results[i], e,
                                /\ Unchanged(cfg', cfg'.did.flows[i], e)
                                /\ recoverable(e))]_vars

\* An import has left an entry as it was whose unload had failed, and the
\* flow has not reloaded it.
C14_Witness ==
    \E i \in 1 .. Len(cfg.did.results) :
        /\ cfg.did.results[i].type = "abort: already_configured"
        /\ ~cfg.did.results[i].changed
        /\ FlowReloads(cfg, cfg.did.results[i].entry_id) = 0
        /\ \E e \in Range(cfg.entries) :
              e.entry_id = cfg.did.results[i].entry_id /\ e.state = "failed_unload"

\* The step handles a core-config-update event whose data holds neither
\* location_name nor language.
LocationOnlyEvent ==
    /\ cfg'.op = "core_config_update"
    /\ cfg'.event \cap {"location_name", "language"} = {}

\* The operation touched no entry and did not load YAML.
EntriesUntouched(w1, w2) ==
    /\ w2.did.removed = <<>> /\ w2.did.updated = <<>> /\ w2.did.reloaded = <<>>
    /\ w2.did.flows = <<>> /\ w2.did.yaml_loads = 0
    /\ w2.entries = w1.entries

\* C15: on a core-config-update event with empty data nothing happens; when
\* the data holds neither location_name nor language, SIG_HA_LOC_UPDATED is
\* dispatched exactly once if the location data of Home Assistant changed and
\* not at all otherwise; in both cases no entry is removed, updated, reloaded
\* or imported again, and YAML is not reloaded.
C15_LocationOnlyEvent ==
    [][LocationOnlyEvent =>
        /\ EntriesUntouched(cfg, cfg')
        /\ cfg'.event = {} =>
              /\ cfg'.did = NoEffects
              /\ cfg'.ha_loc_data = cfg.ha_loc_data
        /\ cfg'.event # {} =>
              cfg'.did.ha_loc_updated =
                IF cfg'.config.latitude # cfg.config.latitude THEN 1 ELSE 0]_vars

\* The latitude of Home Assistant has changed, and the signal has been
\* dispatched once while entries are set up.
C15_Witness ==
    /\ cfg.op = "core_config_update"
    /\ cfg.event = {"latitude"}
    /\ cfg.did.ha_loc_updated = 1
    /\ cfg.ha_loc_data = 20
    /\ cfg.entries # <<>>

\* The step handles a core-config-update event whose data holds
\* location_name or language.
NameEvent ==
    /\ cfg'.op = "core_config_update"
    /\ cfg'.event \cap {"location_name", "language"} # {}

\* How many times async_reload was called for the entry by one of callers
Reloads(w, id, callers) ==
    Cardinality({k \in 1 .. Len(w.did.reloaded) :
        w.did.reloaded[k].entry_id = id /\ w.did.reloaded[k].by \in callers})

\* How many times async_update_entry was called for the entry by one of
\* callers
Updates(w, id, callers) ==
    Cardinality({k \in 1 .. Len(w.did.updated) :
        w.did.updated[k].entry_id = id /\ w.did.updated[k].by \in callers})

Callers == {"flow", "handler", "entry_updated"}

\* The entry as it is in w
EntryOf(w, id) == CHOOSE e \in Range(w.entries) : e.entry_id = id

\* The entries of the user that use the location of Home Assistant, and those
\* with a location of their own
HomeEntries(w) ==
    {e \in Range(w.entries) : e.source # SOURCE_IMPORT /\ e.options.latitude = None}
OtherEntries(w) ==
    {e \in Range(w.entries) : e.source # SOURCE_IMPORT /\ e.options.latitude # None}
ImportedEntries(w) == {e \in Range(w.entries) : e.source = SOURCE_IMPORT}

\* YAML is reloaded once and SIG_HA_LOC_UPDATED is not dispatched.
ReloadsYamlOnce(w) == w.did.yaml_loads = 1 /\ w.did.ha_loc_updated = 0

\* The entry gets the location name of Home Assistant as its title, by one
\* call of async_update_entry.
Retitled(w, e) ==
    /\ Updates(w, e.entry_id, Callers) = 1
    /\ EntryOf(w, e.entry_id).title = w.config.location_name
    /\ EntryOf(w, e.entry_id).options = e.options

\* The entry with a location of its own is reloaded once if recoverable,
\* and not updated.
ReloadedOnly(w, e) ==
    /\ Updates(w, e.entry_id, Callers) = 0
    /\ Reloads(w, e.entry_id, Callers) = IF recoverable(e) THEN 1 ELSE 0
    /\ Reloads(w, e.entry_id, {"handler"}) = Reloads(w, e.entry_id, Callers)

\* Nothing but the import flow, and the update listener that it sets off,
\* touches the entry.
FlowOnly(w, id) ==
    Updates(w, id, {"handler"}) = 0 /\ Reloads(w, id, {"handler"}) = 0

\* C16 as stated: an entry without a location of its own is reloaded only if
\* the update of its title reported no change.
C16_ReloadedOnlyIfUnchanged ==
    [][NameEvent =>
        \A e \in HomeEntries(cfg) :
            Reloads(cfg', e.entry_id, Callers) > 0
                => e.title = cfg'.config.location_name]_vars

\* C16: on a core-config-update event whose data holds location_name or
\* language, YAML is reloaded exactly once and SIG_HA_LOC_UPDATED is not
\* dispatched; every entry of the user without a location of its own gets the
\* new location name of Home Assistant as its title, and the handler itself
\* reloads it exactly when that update reported no change and the entry is
\* recoverable; every entry of the user with a location of its own is
\* reloaded (if recoverable) and not updated; imported entries are handled
\* only through the import flow.
C16_NameEvent ==
    [][NameEvent =>
        /\ ReloadsYamlOnce(cfg')
        /\ \A e \in HomeEntries(cfg) :
              /\ Retitled(cfg', e)
              /\ Reloads(cfg', e.entry_id, {"handler"}) =
                    IF e.title = cfg'.config.location_name /\ recoverable(e)
                    THEN 1 ELSE 0
        /\ \A e \in OtherEntries(cfg) : ReloadedOnly(cfg', e)
        /\ \A e \in ImportedEntries(cfg') : FlowOnly(cfg', e.entry_id)
        /\ \A id \in Range(cfg'.did.removed) : FlowOnly(cfg', id)]_vars

\* The location name has changed: the update listener of an entry of the
\* user has reloaded it after its title changed, and the handler has reloaded
\* one that has a location of its own.
C16_Witness ==
    /\ cfg.op = "core_config_update"
    /\ "location_name" \in cfg.event
    /\ cfg.config.location_name = "Casa"
    /\ \E e \in HomeEntries(cfg) :
          /\ e.title = "Casa"
          /\ Reloads(cfg, e.entry_id, {"entry_updated"}) = 1
          /\ Reloads(cfg, e.entry_id, {"handler"}) = 0
    /\ \E e \in OtherEntries(cfg) : Reloads(cfg, e.entry_id, {"handler"}) = 1

\* The entry is the resegmentation marker of the segment cp.
IsMarker(update, cp) == update.state = "None" /\ update.when = cp.tr_dttm

\* C17: whenever the queue of a phase sensor is not empty, its last entry is
\* the resegmentation marker (when = tr_dttm of the current segment, no
\* state), and no other entry is without a state.
C17_MarkerIsLast ==
    (ent.kind = "sun_phase" /\ ent.updates # <<>>) =>
        /\ ent.cp # <<>>
        /\ IsMarker(ent.updates[Len(ent.updates)], ent.cp[1])
        /\ \A i \in 1 .. Len(ent.updates) - 1 : ent.updates[i].state # "None"

\* A timer of the queue has fired, and two transitions are still queued
\* ahead of the marker.
C17_Witness ==
    /\ ent.kind = "sun_phase" /\ fires > 0
    /\ Len(ent.updates) = 3
    /\ ent.updates[3].state = "None"

\* The step is the firing of a timer of the queue of a phase sensor.
PhaseTimerFires == ent.kind = "sun_phase" /\ fires' # fires

\* The entity shows the state and the attributes of update, with nxt_chg as
\* its next_change.
Shows(e, update, nxt_chg) ==
    /\ e.native_value = <<update.state>>
    /\ e.icon = update.attrs.icon
    /\ e.extra[1].next_change = nxt_chg
    /\ \A k \in DOMAIN update.attrs \ {"icon", "next_change"} :
          e.extra[1][k] = update.attrs[k]

\* What e1 shows is what e2 shows.
SameShown(e1, e2) ==
    e1.native_value = e2.native_value /\ e1.icon = e2.icon /\ e1.extra = e2.extra

\* The firing removes the head of the queue of e1 and gives e2.
Popped(e1, e2) ==
    /\ e1.updates # <<>>
    /\ e2.updates = Tail(e1.updates)
    /\ e2.cp = e1.cp /\ e2.errors = e1.errors /\ e2.timers \subseteq e1.timers
    /\ IF Tail(e1.updates) # <<>>
       THEN Shows(e2, Head(e1.updates), e1.updates[2].when) /\ e2.updReq = e1.updReq
       ELSE SameShown(e1, e2) /\ e2.updReq = e1.updReq + 1

\* The step is an update of a phase sensor whose queue is empty.
PhaseRebuilds ==
    ent.kind = "sun_phase" /\ ent.updates = <<>> /\ ent'.updReq < ent.updReq

\* C18: each firing of a timer of the queue of a phase sensor removes the head
\* entry; if entries remain, the sensor takes the state and the attributes of
\* the removed entry, with the instant of the new head as next_change, and
\* neither the segment nor the timers are computed anew; if the removed entry
\* was the last one, state and attributes stay as they are and a full update
\* is requested, which builds the queue again.
C18_QueueTimer ==
    /\ [][PhaseTimerFires => Popped(ent, ent')]_vars
    /\ [][PhaseRebuilds => ent'.updates # <<>>]_vars

\* The last entry of a queue has been removed after two others, and the full
\* update is requested.
C18_Witness ==
    /\ ent.kind = "sun_phase" /\ fires > 2
    /\ ent.updates = <<>> /\ ent.updReq = 1
    /\ ent.native_value # <<>> /\ ent.native_value # <<"None">>

\* This step builds the queue of the phase sensor.
BuildsAnyQueue ==
    ent.kind = "sun_phase" /\ ent.updates = <<>> /\ ent'.updates # <<>>

\* The thresholds of ahead for which the queue of e holds a transition
Kept(e, ahead) ==
    SelectSeq(ahead, LAMBDA x :
        \E i \in 1 .. Len(e.updates) - 1 : TransitionAt(e, i, x))

\* The queue of e holds the transitions of all the thresholds of ahead but
\* failed of them, in order, and then the marker.
QueueButFailed(e, ahead, failed) ==
    /\ QueueMatches(e, Kept(e, ahead))
    /\ Len(ahead) - Len(Kept(e, ahead)) = failed

\* This step is an update of the phase sensor: a requested or a forced one.
PhaseUpdates ==
    /\ ent.kind = "sun_phase"
    /\ ent'.updReq < ent.updReq \/ (ext' # ext /\ ent'.updReq = ent.updReq)

\* C19: while a phase sensor builds its queue, a root-find that fails for a
\* threshold adds no entry for it and does not stop the batch: every other
\* threshold ahead still gets its entry, in order, and the marker at tr_dttm
\* is appended; and the queue is not empty after an update.
C19_FailureSkipsOne ==
    /\ [][BuildsAnyQueue =>
            QueueButFailed(ent',
                           ThresholdsAhead(PhaseDataOf(ent.kind), ent'.cp[1],
                                           solar_elevation(ent'.astral, now')),
                           ent'.errors - ent.errors)]_vars
    /\ [][PhaseUpdates => ent'.updates # <<>>]_vars

\* The root-find for the first threshold ahead has failed: the queue built at
\* night starts with the transition to nautical twilight and holds those of
\* the four thresholds after it and the marker.
C19_Witness ==
    /\ ent.kind = "sun_phase" /\ ent.errors = 1 /\ fires = 0
    /\ ent.native_value = <<"night">>
    /\ Len(ent.updates) = 6
    /\ ent.updates[1].state = "nautical_twilight"
    /\ ent.updates[6].state = "None"

\* This step is an update of the elevation sensor: a requested or a forced
\* one.
ElevationUpdates ==
    /\ ent.kind = "elevation"
    /\ ent'.updReq < ent.updReq \/ (ext' # ext /\ ent'.updReq = ent.updReq)

\* The instant of the timer that the update armed
ArmedAt(e) == (CHOOSE t \in e.timers : t.id = e.unsub_update).at

\* The update of e at instant t has no tracking point to extrapolate from.
NoTrackingPoint(e, t) ==
    e.prv_dttm = None \/ e.cp = <<>> \/ t >= e.cp[1].tr_dttm

\* The update of e at instant t has a tracking point, and the root-finding
\* from it returns None.
RootFindingFails(e, t) ==
    /\ ~NoTrackingPoint(e, t)
    /\ get_dttm_at_elev(e.astral, e.cp[1], e.prv_dttm, t,
                        elev_target(e.cp[1].rising,
                                    Round1(solar_elevation(e.astral, t))),
                        MAX_ERR_ELEV) = None

\* The wake-up without an extrapolation: tr_dttm within DELTA before it, and
\* else DELTA from t.
Fallback(cp, t) ==
    IF cp.tr_dttm - DELTA <= t /\ t < cp.tr_dttm THEN cp.tr_dttm ELSE t + DELTA

\* C20: after every update of the elevation sensor at an instant now before
\* tr_dttm the timer armed is not later than tr_dttm; with no tracking point,
\* or when the root-finding returns None, the timer is at tr_dttm if
\* tr_dttm - 5 min <= now < tr_dttm and at now + 5 min otherwise.
C20_BoundaryNotSkipped ==
    [][ElevationUpdates =>
        /\ \E t \in ent'.timers : t.id = ent'.unsub_update
        /\ now' < ent'.cp[1].tr_dttm => ArmedAt(ent') <= ent'.cp[1].tr_dttm
        /\ (NoTrackingPoint(ent, now') \/ RootFindingFails(ent, now'))
              => ArmedAt(ent') = Fallback(ent'.cp[1], now')]_vars

\* An update less than five minutes before the end of the segment has found
\* no root from its tracking point and armed the timer at tr_dttm.
C20_Witness ==
    /\ ent.kind = "elevation" /\ ent.cp # <<>> /\ ent.unsub_update # 0
    /\ ent.prv_dttm = now /\ now < ent.cp[1].tr_dttm
    /\ ent.cp[1].tr_dttm - DELTA <= now
    /\ fires > 0
    /\ \E t \in ent.timers : t.id = ent.unsub_update /\ t.at = ent.cp[1].tr_dttm

(* C21: the numeric elevation sensor drops its segment and its tracking    *)
(* point when it has no segment or now >= tr_dttm, so whenever an update   *)
(* starts root-finding from (tracking point, now) both instants lie in the *)
(* segment in use: tl_dttm <= previous < now < tr_dttm.                    *)
RootFindingStarts == ElevationUpdates /\ ~NoTrackingPoint(ent, now')

InSegment(cp, prv, t) ==
    /\ cp.tl_dttm <= prv
    /\ prv < t
    /\ t < cp.tr_dttm

C21_SameSegment ==
    [][RootFindingStarts => InSegment(ent.cp[1], ent.prv_dttm, now')]_vars

(* C23 as stated: the nxt_noon of the segment _get_curve_params(t) answers *)
(* is a solar noon not earlier than tr_dttm, and for a falling segment it  *)
(* is the first solar noon after tr_dttm.                                  *)
IsSolarNoon(p, t) == (t - solar_noon(p, 0)) % ONE_DAY = 0

NoonAfter(p, t) == solar_noon(p, FloorDiv(t - solar_noon(p, 0), ONE_DAY) + 1)

CurveCall == call # NoCall /\ call.fn = "_get_curve_params"

NoonNotEarlier ==
    /\ IsSolarNoon(call.p, call.cp.nxt_noon)
    /\ call.cp.nxt_noon >= call.cp.tr_dttm

C23_NoonFollowsFalling ==
    CurveCall =>
        /\ NoonNotEarlier
        /\ ~call.cp.rising => call.cp.nxt_noon = NoonAfter(call.p, call.cp.tr_dttm)

(* C23, amended: nxt_noon is the solar noon of the date after that of t,   *)
(* a solar noon not earlier than tr_dttm; for a falling segment it is the  *)
(* first solar noon after tr_dttm when t is not before the solar midnight  *)
(* of its date, and the solar noon one day after that one when t is before *)
(* it.                                                                     *)
BeforeMidnight(p, t) == t < solar_midnight(p, DateOf(t))

C23_NxtNoon ==
    CurveCall =>
        /\ NoonNotEarlier
        /\ call.cp.nxt_noon = solar_noon(call.p, DateOf(call.t) + 1)
        /\ (~call.cp.rising /\ ~BeforeMidnight(call.p, call.t)) =>
               call.cp.nxt_noon = NoonAfter(call.p, call.cp.tr_dttm)
        /\ (~call.cp.rising /\ BeforeMidnight(call.p, call.t)) =>
               call.cp.nxt_noon = NoonAfter(call.p, call.cp.tr_dttm) + ONE_DAY

C23_Witness ==
    /\ CurveCall
    /\ call.p = 2
    /\ ~call.cp.rising
    /\ BeforeMidnight(call.p, call.t)
    /\ call.cp.tl_dttm <= call.t /\ call.t < call.cp.tr_dttm

(* C22: when the deCONZ daylight sensor builds its queue in a rising       *)
(* segment at an instant earlier than tr_dttm - 12 h, its state is         *)
(* night_start and the head of the queue is the transition to nadir at     *)
(* tr_dttm - 12 h, earlier than every per-threshold transition; when it    *)
(* builds the queue in a falling segment at an instant not earlier than    *)
(* 12 h before the solar noon that follows the segment, its state is       *)
(* nadir.                                                                  *)
DeconzBuilds ==
    ent.kind = "deconz_daylight" /\ ent.updates = <<>> /\ ent'.updates # <<>>

RisingBeforeNadir(cp, t) == cp.rising /\ t < cp.tr_dttm - HALF_DAY

FallingAtNadir(p, cp, t) ==
    ~cp.rising /\ t >= NoonAfter(p, cp.tr_dttm) - HALF_DAY

NadirFirst(e) ==
    /\ e.native_value = <<"night_start">>
    /\ e.updates[1].when = e.cp[1].tr_dttm - HALF_DAY
    /\ e.updates[1].state = "nadir"

NadirAhead(e) ==
    \A i \in 2 .. Len(e.updates) - 1 : e.updates[1].when < e.updates[i].when

C22_DeconzNadir ==
    [][DeconzBuilds =>
          /\ RisingBeforeNadir(ent'.cp[1], now') =>
                 NadirFirst(ent') /\ NadirAhead(ent')
          /\ FallingAtNadir(ent.astral, ent'.cp[1], now') =>
                 ent'.native_value = <<"nadir">>]_vars

(* C25: every instant _get_dttm_at_elev returns has an elevation within    *)
(* max_err of the target; when the loop stops because the estimate equals  *)
(* t0_dttm or t1_dttm and the elevation there is not within max_err, it    *)
(* returns None.                                                           *)
Returned == call.s.why # "" /\ call.s.est_dttm # None

ErrorOf(c) == Abs(solar_elevation(c.p, c.s.est_dttm) - c.elev)

Width(s) == Abs(s.t1_dttm - s.t0_dttm)

Passes == call'.s.est = call.s.est + 1

C26_BracketNarrows ==
    [][Passes => call'.s.why # "" \/ Width(call'.s) < Width(call.s)]_vars

(* C26, amended: the loop ends for every profile, bracket, target and      *)
(* tolerance explored (within MaxPasses passes).  A pass that does not     *)
(* exit replaces one end of the bracket by the estimate, a whole second of *)
(* the segment that differs from both ends (or, for an estimate after      *)
(* t1_dttm, moves the bracket to [t1_dttm, estimate]); the bracket becomes *)
(* strictly narrower when the estimate lies between its ends, not          *)
(* otherwise.                                                              *)
Shifted(s, t) == t.t0_dttm = s.t1_dttm /\ t.t0_elev = s.t1_elev /\ t.t1_dttm > s.t1_dttm

Replaced(s, t) ==
    \/ t.t0_dttm = s.t0_dttm /\ t.t1_dttm \notin {s.t0_dttm, s.t1_dttm}
    \/ t.t1_dttm = s.t1_dttm /\ t.t0_dttm \notin {s.t0_dttm, s.t1_dttm}

Inside(s, t) ==
    /\ Min2(s.t0_dttm, s.t1_dttm) <= Min2(t.t0_dttm, t.t1_dttm)
    /\ Max2(t.t0_dttm, t.t1_dttm) <= Max2(s.t0_dttm, s.t1_dttm)

InSegmentEnds(cp, s) ==
    \A x \in {s.t0_dttm, s.t1_dttm} : cp.tl_dttm <= x /\ x <= cp.tr_dttm

GoesOn ==
    /\ Shifted(call.s, call'.s) \/ Replaced(call.s, call'.s)
    /\ InSegmentEnds(call.cp, call.s) => InSegmentEnds(call.cp, call'.s)
    /\ Inside(call.s, call'.s) => Width(call'.s) < Width(call.s)

C26_LoopEnds ==
    /\ [](call.s.est < MaxPasses)
    /\ [][Passes => call'.s.why # "" \/ GoesOn]_vars

C26_Witness ==
    /\ call.s.why = "converged"
    /\ call.s.est > 1
    /\ call.s.t0_dttm = call.b[2]
    /\ Width(call.s) > call.b[2] - call.b[1]
    /\ call.b[2] - call.b[1] = DELTA

(* C27: whenever the elevations at the two ends of the bracket are equal   *)
(* at a pass of the loop of _get_dttm_at_elev, the first included and the  *)
(* target equal to both included, the result is None (the                  *)
(* ZeroDivisionError is caught).                                           *)
FlatBracket(s) == s.t0_elev = s.t1_elev

C27_FlatIsNone ==
    [][(Passes /\ FlatBracket(call.s)) =>
          call'.s.why = "ZeroDivisionError" /\ call'.s.est_dttm = None]_vars

C27_Witness ==
    /\ call.s.why = "ZeroDivisionError"
    /\ call.s.est > 1
    /\ call.s.t0_dttm # call.s.t1_dttm
    /\ FlatBracket(call.s)

(* C24 as stated: of two updates of the numeric elevation sensor in one    *)
(* segment, both with a tracking point and a root found for a target one   *)
(* ELEV_STEP from the rounded elevation, the one made where the curve is   *)
(* shallower has a wake-up interval at least as long as the other.         *)
PairCall == call # NoCall /\ call.fn = "_update"

OneStep(cp, w) == Abs(elev_target(cp.rising, w.rnd_elev) - w.rnd_elev) = ELEV_STEP

Interval(w) == w.nxt_dttm - w.t

Comparable ==
    /\ PairCall
    /\ call.a.found /\ call.b.found
    /\ OneStep(call.cp, call.a) /\ OneStep(call.cp, call.b)

C24_ShallowerWaitsLonger ==
    (Comparable /\ call.a.rise <= call.b.rise) =>
        Interval(call.a) >= Interval(call.b)

(* C24, amended: an update with a tracking point and a root found for a    *)
(* target one ELEV_STEP from the rounded elevation wakes where the         *)
(* elevation is 0.5 from the elevation at now, give or take 0.05 of        *)
(* rounding and MAX_ERR_ELEV; so of two such updates the one whose curve   *)
(* is shallower between now and its wake-up (mean slope) has an interval   *)
(* at least 43/57 of the other's.                                          *)
Travelled(w) == Abs(w.nxt_elev - w.cur_elev)

TravelsOneStep(w) ==
    /\ ELEV_STEP - 50 - MAX_ERR_ELEV <= Travelled(w)
    /\ Travelled(w) <= ELEV_STEP + 50 + MAX_ERR_ELEV
    /\ Interval(w) > 0

\* Travelled(a) / Interval(a) <= Travelled(b) / Interval(b)
ShallowerAhead(a, b) == Travelled(a) * Interval(b) <= Travelled(b) * Interval(a)

C24_WakeSpacing ==
    Comparable =>
        /\ TravelsOneStep(call.a) /\ TravelsOneStep(call.b)
        /\ ShallowerAhead(call.a, call.b) =>
               57 * Interval(call.a) >= 43 * Interval(call.b)

C24_Witness ==
    /\ Comparable
    /\ call.a.rise < call.b.rise
    /\ ShallowerAhead(call.b, call.a)
    /\ Interval(call.a) < Interval(call.b)
    /\ call.a.rnd_elev # call.a.cur_elev

(* C28: an update of a phase sensor while its queue holds entries changes  *)
(* nothing: state, attributes, segment, queue and pending timers stay as   *)
(* they are, and the oracle is not asked (the outcome is the same whatever *)
(* the astral data and the instant).                                       *)
UpdatesWithQueue == PhaseUpdates /\ ent.updates # <<>>

NothingChanged(e1, e2) == e2 = [e1 EXCEPT !.updReq = e2.updReq]

OracleNotAsked(e) ==
    \A p \in ProfileIds, t \in {0, now, now + ONE_DAY} :
        phase_update([e EXCEPT !.astral = p], t) = [e EXCEPT !.astral = p]

C28_UpdateWithQueue ==
    [][UpdatesWithQueue =>
          /\ NothingChanged(ent, ent')
          /\ trace' = trace
          /\ OracleNotAsked(ent)]_vars

C28_Witness ==
    /\ ent.kind = "sun_phase"
    /\ ext = 1 /\ ent.gen = 0 /\ fires = 0 /\ ent.updReq = 0
    /\ Len(ent.updates) > 1
    /\ Cardinality(ent.timers) = Len(ent.updates)

(* C29: the target of the numeric elevation sensor is the next multiple of *)
(* ELEV_STEP strictly beyond the rounded elevation in the direction of     *)
(* travel; but in a rising segment with the rounded elevation below        *)
(* SUNSET_ELEV it does not exceed SUNSET_ELEV + MAX_ERR_ELEV, and in a     *)
(* falling segment with the rounded elevation above SUNSET_ELEV it does    *)
(* not go below SUNSET_ELEV - MAX_ERR_ELEV.                                *)
Multiples == {ELEV_STEP * k : k \in -181 .. 181}

NextAbove(x) == CHOOSE m \in Multiples : x < m /\ m <= x + ELEV_STEP

NextBelow(x) == CHOOSE m \in Multiples : m < x /\ x - ELEV_STEP <= m

TargetCall == call # NoCall /\ call.fn = "elev_target"

C29_Target ==
    TargetCall =>
        IF call.rising
        THEN IF call.rnd_elev < SUNSET_ELEV
             THEN call.elev = Min2(NextAbove(call.rnd_elev), SUNSET_ELEV + MAX_ERR_ELEV)
             ELSE call.elev = NextAbove(call.rnd_elev)
        ELSE IF call.rnd_elev > SUNSET_ELEV
             THEN call.elev = Max2(NextBelow(call.rnd_elev), SUNSET_ELEV - MAX_ERR_ELEV)
             ELSE call.elev = NextBelow(call.rnd_elev)

C29_Witness ==
    /\ TargetCall
    /\ call.rising /\ call.rnd_elev = -900
    /\ call.elev = SUNSET_ELEV + MAX_ERR_ELEV
    /\ NextAbove(call.rnd_elev) = -500

\* ---- C30 ----
StateCall == call # NoCall /\ call.fn = "_state_at_elev"

\* The thresholds between two phases of the sun phase sensor
PhaseThresholds == Elems(Inner(PhaseElevs))

\* The phase whose lower bound is the threshold thr
PhaseAbove(thr) ==
    LET i == CHOOSE k \in 1 .. Len(SunPhases) : SunPhases[k][1] = thr
    IN  SunPhases[i][2]

\* The phase whose upper bound is the threshold thr
PhaseBelow(thr) ==
    LET i == CHOOSE k \in 1 .. Len(SunPhases) : SunPhases[k][1] = thr
    IN  SunPhases[i - 1][2]

\* The state of the sun phase sensor at elev in a segment of the other
\* direction
OtherWay(c) == state_at_elev(SunPhaseData, [rising |-> ~c.rising], c.elev)

\* C30: for the sun phase sensor and every elevation in [-90, 90] degrees,
\* _state_at_elev indexes a non-empty list; at an elevation that is no
\* threshold the rising state and the falling state are the same, and at a
\* threshold the rising state is the phase above it and the falling state the
\* phase below it.
C30_StateAtElev ==
    StateCall =>
        /\ call.n > 0
        /\ IF call.elev \in PhaseThresholds
           THEN call.state = IF call.rising THEN PhaseAbove(call.elev)
                             ELSE PhaseBelow(call.elev)
           ELSE call.state = OtherWay(call)

C30_Witness ==
    /\ StateCall
    /\ ~call.rising
    /\ call.elev = SUNSET_ELEV
    /\ call.state = "civil_twilight"
    /\ OtherWay(call) = "day"

(* C31: after every update of the numeric elevation sensor at instant now  *)
(* the armed wake-up is strictly later than now, whether it comes from the *)
(* root-finding between the tracking point and now or from the fallback.   *)
C31_WakeAfterNow ==
    [][ElevationUpdates => ArmedAt(ent') > now']_vars

\* An update of the elevation sensor after a timer fired has armed a wake-up
\* that the root-finding found: later than now, and not the fallback.
C31_Witness ==
    /\ ent.kind = "elevation" /\ ent.cp # <<>> /\ ent.unsub_update # 0
    /\ ent.prv_dttm = now /\ ent.updReq = 0 /\ fires > 0
    /\ \E t \in ent.timers :
        /\ t.id = ent.unsub_update
        /\ t.at > now
        /\ t.at # Fallback(ent.cp[1], now)

\* The entity is a phase sensor.
IsPhaseSensor(e) == e.kind \in {"sun_phase", "deconz_daylight"}

\* The handles of the entries of the queue of e
QueueHandles(e) == {e.updates[i].remove : i \in 1 .. Len(e.updates)}

\* The pending timers of e and the entries of its queue correspond one to
\* one: each entry holds the handle of a pending timer set to its instant,
\* no two entries hold the same handle, and no pending timer is without an
\* entry.
TimersMatchQueue(e) ==
    /\ \A i \in 1 .. Len(e.updates) :
          \E t \in e.timers :
              /\ t.id = e.updates[i].remove
              /\ t.at = e.updates[i].when
              /\ t.cb = "_async_do_update"
    /\ Cardinality(QueueHandles(e)) = Len(e.updates)
    /\ {t.id : t \in e.timers} = QueueHandles(e)

\* The timer that fires in this step
Fired == CHOOSE t \in ent.timers : t \notin ent'.timers

\* The step is the firing of a timer of a phase sensor.
QueueTimerFires == IsPhaseSensor(ent) /\ fires' # fires

\* The timer that fires in this step is the timer of the head of the queue.
HeadFires ==
    /\ ent.updates # <<>>
    /\ Fired.id = Head(ent.updates).remove
    /\ ent'.updates = Tail(ent.updates)

(* C32: in every reachable state of a phase sensor the pending timers it   *)
(* armed correspond one to one with the entries of its queue; whenever a   *)
(* timer fires the queue is not empty and the entry removed is the one     *)
(* whose timer fired.                                                      *)
C32_TimersMatchQueue ==
    /\ [](IsPhaseSensor(ent) => TimersMatchQueue(ent))
    /\ [][QueueTimerFires => HeadFires]_vars

\* The first update of the phase sensor has run: a queue has been built.
FirstUpdateDone == IsPhaseSensor(ent) /\ trace # <<>>

(* C33: after its first update, the state of a phase sensor (sun phase or  *)
(* deCONZ daylight) is in every reachable state one of the option labels   *)
(* declared at construction; it is never None, and the marker, which has   *)
(* no state, is never applied as a state.                                  *)
C33_StateIsOption ==
    FirstUpdateDone =>
        /\ ent.native_value # <<>>
        /\ ent.native_value[1] # "None"
        /\ ent.native_value[1] \in phase_options(PhaseDataOf(ent.kind))

\* The daylight sensor shows a state that a timer of its queue applied, and
\* the marker is the only entry left.
C33_Witness ==
    /\ FirstUpdateDone
    /\ ent.kind = "deconz_daylight"
    /\ fires > 1
    /\ Len(ent.updates) = 1
    /\ ent.updates[1].state = "None"
    /\ ent.native_value \in {<<"golden_hour_1">>, <<"night_start">>}

\* The step is the firing of the midnight timer of a date-based sensor.
MidnightFires == ent.kind = "date" /\ fires' # fires

\* t is 00:00 local time in the time zone tzi.
LocalMidnight(t, tzi) == (t + tzi) % ONE_DAY = 0

\* The one pending timer of e is the one _unsub_update cancels, and it is set
\* to the first local midnight of the time zone of e after instant t.
OneMidnightTimer(e, t) ==
    /\ Cardinality(e.timers) = 1
    /\ \A x \in e.timers :
          /\ x.id = e.unsub_update
          /\ x.cb = "async_schedule_update_at_midnight"
          /\ LocalMidnight(x.at, e.tzi)
          /\ t < x.at /\ x.at <= t + ONE_DAY

(* C34: a date-based sensor has, from the moment it is added until it is   *)
(* removed, exactly one pending midnight timer, set to the next local      *)
(* midnight of its current time zone, across timer fires and astral-data   *)
(* updates; each firing arms the timer for the following midnight and      *)
(* requests one update.  Once removed it has no pending timer.             *)
C34_OneMidnightTimer ==
    /\ [](ent.kind = "date" =>
             IF ent.removed THEN ent.timers = {} /\ ent.unsub_update = 0
             ELSE OneMidnightTimer(ent, now))
    /\ [][MidnightFires =>
             /\ ArmedAt(ent') = ArmedAt(ent) + ONE_DAY
             /\ ent'.updReq = ent.updReq + 1
             /\ now' = ArmedAt(ent)]_vars

\* A midnight timer has fired after the astral data moved the sensor to the
\* time zone five and a half hours ahead of UTC.
C34_Witness ==
    /\ ent.kind = "date" /\ ~ent.removed
    /\ ent.tzi = 19800
    /\ ext > 0 /\ fires > 1
    /\ ent.native_value # <<>>
    /\ \E x \in ent.timers : x.at = now + ONE_DAY

\* This step completes an update of the sensor: a requested or a forced one.
UpdateCompletes ==
    ent'.updReq < ent.updReq \/ (ext' # ext /\ ent'.updReq = ent.updReq)

\* The clock has reached the end of the segment in use.
AtBoundary == ent.cp # <<>> /\ now >= ent.cp[1].tr_dttm

(* C35: the curve-tracking sensors never stall.  After every completed     *)
(* update of an elevation, azimuth or phase sensor at least one timer of   *)
(* the instance is pending; with fair timers and fair requested updates    *)
(* the timers go on firing (until MaxFires of them have fired), every      *)
(* requested update runs, and whenever the clock has reached the end of    *)
(* the segment in use the sensor comes to use a segment that ends later.   *)
C35_NeverStalls ==
    /\ [][UpdateCompletes => ent'.timers # {}]_vars
    /\ <>(fires = MaxFires)
    /\ (ent.updReq > 0) ~> (ent.updReq = 0)
    /\ AtBoundary ~> ~AtBoundary

\* A timer set to the end of the segment has fired and the update it
\* requested has put a later segment in use.
C35_Witness ==
    /\ ent.kind \in {"elevation", "sun_phase"}
    /\ ent.cp # <<>> /\ ent.cp[1].tl_dttm = now
    /\ ent.updReq = 0 /\ fires > 0 /\ ext = 0
    /\ ent.timers # {}

\* This step completes an update of an elevation or phase sensor at the
\* instant the segment in use ends (the marker, or the elevation sensor's
\* wake-up at tr_dttm, has fired), and the update put a segment in use.
BoundaryUpdate ==
    /\ ent.kind \in {"elevation", "sun_phase"}
    /\ UpdateCompletes
    /\ ent.cp # <<>> /\ ent'.cp # <<>>
    /\ now' = ent.cp[1].tr_dttm

(* C36: successive segments are contiguous and alternate.  An update that   *)
(* runs at the instant tr_dttm of the segment in use puts in use a segment  *)
(* whose tl_dttm is that instant and whose rising is the opposite.          *)
C36_Contiguous ==
    [][BoundaryUpdate => /\ ent'.cp[1].tl_dttm = ent.cp[1].tr_dttm
                         /\ ent'.cp[1].rising = ~ent.cp[1].rising]_vars

\* In this step async_update_entry was called once, for an entry that was
\* loaded, and reported a change: the update listener entry_updated ran once.
ListenerRan ==
    /\ Len(cfg'.did.updated) = 1
    /\ cfg'.did.updated[1].changed
    /\ \E e \in Range(cfg.entries) :
        e.entry_id = cfg'.did.updated[1].entry_id /\ e.state = "loaded"
    /\ \E e \in Range(cfg'.entries) : e.entry_id = cfg'.did.updated[1].entry_id

\* The entry the listener ran for, before the step and after it
Stored == EntryOf(cfg, cfg'.did.updated[1].entry_id).config_data
Updated == EntryOf(cfg', cfg'.did.updated[1].entry_id)

\* The title and the sensor lists of the updated entry equal the stored ones.
SameTitleAndSensors ==
    /\ Updated.title = Stored.title
    /\ Updated.options.sensors = Stored.sensors

\* The location data or the observer elevations of the updated entry differ
\* from the stored ones.
AstralDataDiffers ==
    \/ get_loc_data(Updated.options) # Stored.loc_data
    \/ from_entry_options(Updated.options) # Stored.obs_elvs

(* C37: when the update listener runs for an entry whose title and sensor  *)
(* lists equal the stored ones, the entry is not reloaded by the listener, *)
(* SIG_ASTRAL_DATA_UPDATED is dispatched exactly when the location data or *)
(* the observer elevations differ from the stored ones, and the stored     *)
(* ones are then those of the entry; in every other case no signal is      *)
(* dispatched and the entry, whose state is recoverable, is reloaded.      *)
C37_EntryUpdated ==
    [][ListenerRan =>
        IF SameTitleAndSensors
        THEN /\ Reloads(cfg', Updated.entry_id, {"entry_updated"}) = 0
             /\ cfg'.did.astral_data_updated = IF AstralDataDiffers THEN 1 ELSE 0
             /\ Updated.config_data.loc_data = get_loc_data(Updated.options)
             /\ Updated.config_data.obs_elvs = from_entry_options(Updated.options)
        ELSE /\ cfg'.did.astral_data_updated = 0
             /\ Reloads(cfg', Updated.entry_id, {"entry_updated"}) =
                    IF recoverable(EntryOf(cfg, Updated.entry_id)) THEN 1 ELSE 0]_vars

\* The service has changed the observer elevations alone of a loaded entry
\* with a location of its own: the signal was dispatched and nothing reloaded.
C37_Witness ==
    /\ cfg.op = "update_location"
    /\ cfg.did.astral_data_updated = 1
    /\ cfg.did.reloaded = <<>>
    /\ Len(cfg.did.updated) = 1
    /\ EntryOf(cfg, cfg.did.updated[1].entry_id).config_data.obs_elvs = <<<<-200, 5>>, <<100>>>>
    /\ EntryOf(cfg, cfg.did.updated[1].entry_id).config_data.loc_data = 50

\* This step is a core-config update that changes the location data of Home
\* Assistant.
HaLocationChanged ==
    /\ cfg'.op = "core_config_update"
    /\ get_ha_loc_data(cfg'.config) # get_ha_loc_data(cfg.config)

\* The entries that are loaded before the step, have no location of their
\* own and are still entries after it
LoadedHomeEntries ==
    {e \in Range(cfg.entries) :
        /\ e.state = "loaded" /\ e.options.latitude = None
        /\ \E e2 \in Range(cfg'.entries) : e2.entry_id = e.entry_id}

\* SIG_HA_LOC_UPDATED was dispatched in the step: every loaded entry that
\* uses the location of Home Assistant is subscribed to it.
SentHaLocUpdated == cfg'.did.ha_loc_updated > 0

\* The entry was reloaded in the step: by the handler, by its update
\* listener or by the import flow.
ReloadedIn(id) == Reloads(cfg', id, Callers) > 0

\* The update listener of the entry dispatched SIG_ASTRAL_DATA_UPDATED in the
\* step: _astral_data_updated then takes the location data of Home Assistant
\* from _new_loc_data(None), which is the new one.
SentAstralData(e) ==
    /\ cfg'.did.astral_data_updated > 0
    /\ EntryOf(cfg', e.entry_id).config_data # e.config_data

(* C38: after a core-config update that changes the location data of Home  *)
(* Assistant, every loaded entry without a location of its own ends up     *)
(* using the new location, whatever the keys of the event: it has been     *)
(* sent SIG_HA_LOC_UPDATED or has been reloaded (or, which the claim does   *)
(* not name, its entities have been given new astral data by its update    *)
(* listener).                                                              *)
C38_HomeEntriesFollow ==
    [][HaLocationChanged =>
        \A e \in LoadedHomeEntries :
            SentHaLocUpdated \/ ReloadedIn(e.entry_id) \/ SentAstralData(e)]_vars

\* This step ends a user config flow with a new entry.
UserFlowCreates == cfg.uflow.step # "" /\ cfg'.uflow.step = "" /\ Len(cfg'.entries) = Len(cfg.entries) + 1

(* C39: a user config flow never creates an entry whose title is the title *)
(* of an entry that exists already.                                        *)
C39_NoDuplicateTitle ==
    [][UserFlowCreates =>
        \A e \in Range(cfg.entries) : e.title # cfg'.entries[Len(cfg'.entries)].title]_vars

====
